---- MODULE Spec2Model ----
(***************************************************************************)
(* A model of the synthetic example generator of                           *)
(* src/dataset/generate_home_assistant_data.py: the device-type registry,  *)
(* the ambient context builder random_device_list, the response lookup     *)
(* get_random_response, the three example assemblers and the driver        *)
(* generate_example_file.                                                  *)
(*                                                                         *)
(* Text is modelled at two levels.  Device names are sequences of          *)
(* one-character strings, because the code splits them on "." and feeds    *)
(* them to difflib.SequenceMatcher.  Phrases, responses and state strings  *)
(* are sequences of tokens (strings); a placeholder such as <device_name>  *)
(* is one token.  Every draw from the random module is a nondeterministic  *)
(* choice from a set.                                                      *)
(***************************************************************************)
EXTENDS Integers, Sequences, FiniteSets, TLC

(***************************************************************************)
(* Bounds of the model.                                                    *)
(***************************************************************************)
\* max_devices, the default 32 of the assemblers, scaled down.
MaxDevices == 2
\* How many values of a parameter generator's range are drawn (from its low end).
MaxDraw == 1
\* The largest repetition factor of a driver configuration.
MaxFactor == 2
\* the longest question template of a single response lookup, in tokens
MaxQuestion == 2
\* the most attributes a single call of get_all_services is given as exposed
MaxExposed == 3
\* the largest max_devices a single call of random_device_list is given
MaxListed == 3
\* the most rows of a pile_of_templated_actions.csv that is loaded on its own
MaxRows == 2

\* the largest retry_count translate_with_placeholders is called with
MaxRetry == 3

\* the number of pieces a text handed to translate_with_placeholders is made of
MaxPieces == 2

\* the number of rows of the largest file process_file reads
MaxFileRows == 6

(***************************************************************************)
(* Sequence helpers.                                                       *)
(***************************************************************************)
Min(a, b) == IF a < b THEN a ELSE b

Max(a, b) == IF a > b THEN a ELSE b

Range(s) == { s[i] : i \in 1..Len(s) }

Contains(s, e) == \E i \in 1..Len(s) : s[i] = e

\* list.insert(index, e) with 0 <= index <= len(list)
InsertAt(s, index, e) == SubSeq(s, 1, index) \o <<e>> \o SubSeq(s, index + 1, Len(s))

RECURSIVE SelectIdx(_, _)
\* the least index of e in s at or after position 1, 0 when absent
SelectIdx(s, e) ==
  IF s = <<>> THEN 0
  ELSE IF Head(s) = e THEN 1
  ELSE LET r == SelectIdx(Tail(s), e) IN IF r = 0 THEN 0 ELSE r + 1

RECURSIVE Str(_)
\* "".join(chars): the string spelled by a sequence of one-character strings
Str(cs) == IF cs = <<>> THEN "" ELSE Head(cs) \o Str(Tail(cs))

\* str.split(sep) on a sequence of characters: the list of fields
RECURSIVE SplitFrom(_, _, _)
SplitFrom(cs, sep, cur) ==
  IF cs = <<>> THEN <<cur>>
  ELSE IF Head(cs) = sep THEN <<cur>> \o SplitFrom(Tail(cs), sep, <<>>)
  ELSE SplitFrom(Tail(cs), sep, Append(cur, Head(cs)))

Split(cs, sep) == SplitFrom(cs, sep, <<>>)

(***************************************************************************)
(* difflib.SequenceMatcher(None, a, b).ratio() without junk (isjunk is     *)
(* None and both strings are far shorter than the 200 elements at which    *)
(* the automatic junk heuristic starts).                                   *)
(***************************************************************************)
RECURSIVE RunLen(_, _, _, _, _, _)
\* length of the common run of a[i..ahi-1] and b[j..bhi-1] (0-based, half open)
RunLen(a, b, i, j, ahi, bhi) ==
  IF i < ahi /\ j < bhi /\ a[i + 1] = b[j + 1]
  THEN 1 + RunLen(a, b, i + 1, j + 1, ahi, bhi)
  ELSE 0

\* find_longest_match(alo, ahi, blo, bhi): <<i, j, k>> with k maximal, then i
\* minimal, then j minimal; <<alo, blo, 0>> when nothing matches
find_longest_match(a, b, alo, ahi, blo, bhi) ==
  LET cands == { <<i, j, RunLen(a, b, i, j, ahi, bhi)>> :
                   i \in alo..(ahi - 1), j \in blo..(bhi - 1) }
      pos   == { c \in cands : c[3] > 0 }
  IN IF pos = {} THEN <<alo, blo, 0>>
     ELSE CHOOSE c \in pos :
            \A d \in pos :
              \/ c[3] > d[3]
              \/ c[3] = d[3] /\ c[1] < d[1]
              \/ c[3] = d[3] /\ c[1] = d[1] /\ c[2] <= d[2]

RECURSIVE MatchedChars(_, _, _, _, _, _)
\* the sum of the sizes of get_matching_blocks() inside the given windows
MatchedChars(a, b, alo, ahi, blo, bhi) ==
  LET m == find_longest_match(a, b, alo, ahi, blo, bhi)
  IN IF m[3] = 0 THEN 0
     ELSE m[3]
          + (IF alo < m[1] /\ blo < m[2]
             THEN MatchedChars(a, b, alo, m[1], blo, m[2]) ELSE 0)
          + (IF m[1] + m[3] < ahi /\ m[2] + m[3] < bhi
             THEN MatchedChars(a, b, m[1] + m[3], ahi, m[2] + m[3], bhi) ELSE 0)

\* ratio() = 2.0 * matches / (len(a) + len(b)), kept as a fraction <<num, den>>
ratio(a, b) ==
  IF Len(a) + Len(b) = 0 THEN <<1, 1>>
  ELSE <<2 * MatchedChars(a, b, 0, Len(a), 0, Len(b)), Len(a) + Len(b)>>

\* similarity_ratio < 0.4, on the fraction: num/den < 4/10
BelowThreshold(r) == 10 * r[1] < 4 * r[2]


(***************************************************************************)
(* The random module.  random.random() is drawn from a grid of hundredths, *)
(* random.randint and the random.choice of a parameter generator from the  *)
(* low end of their range, random.choice over a corpus from all of it.     *)
(***************************************************************************)
\* random.random(), in hundredths
Random == {0, 25, 50, 75}

\* random.randint(lo, hi)
RandInt(lo, hi) == { v \in lo..hi : v < lo + MaxDraw }

\* random.choice(values) inside a parameter generator
DrawChoice(values) == { values[i] : i \in 1..Min(Len(values), MaxDraw) }

\* random.choice(rows) over a corpus or a candidate list (IndexError when empty)
random_choice(rows) == Range(rows)

(***************************************************************************)
(* STATE_* constants, src lines 16-39, are used by their string values.    *)
(* closest_color over the part of webcolors.CSS3_HEX_TO_NAMES the draws    *)
(* can reach.                                                              *)
(***************************************************************************)
CSS3_HEX_TO_NAMES ==
  << <<"black", <<0, 0, 0>> >>, <<"navy", <<0, 0, 128>> >>,
     <<"green", <<0, 128, 0>> >>, <<"maroon", <<128, 0, 0>> >>,
     <<"white", <<255, 255, 255>> >> >>

SqDist(c, d) == (c[1] - d[1]) * (c[1] - d[1]) + (c[2] - d[2]) * (c[2] - d[2])
                + (c[3] - d[3]) * (c[3] - d[3])

\* min_colors[distance] = name: a later entry with the same distance replaces
\* an earlier one; the result is the entry of the least distance
closest_color(requested_color) ==
  LET n    == Len(CSS3_HEX_TO_NAMES)
      dist == [i \in 1..n |-> SqDist(CSS3_HEX_TO_NAMES[i][2], requested_color)]
      best == CHOOSE i \in 1..n :
                /\ \A j \in 1..n : dist[i] <= dist[j]
                /\ \A j \in 1..n : dist[j] = dist[i] => j <= i
  IN CSS3_HEX_TO_NAMES[best][1]

\* str() of an rgb tuple
StrRgb(c) == "(" \o ToString(c[1]) \o ", " \o ToString(c[2]) \o ", " \o ToString(c[3]) \o ")"

(***************************************************************************)
(* The device-type registry.  A weight is in units of 1/3200; the services *)
(* keep the insertion order of the dict; generators is the set of keys of  *)
(* random_parameter_generator, and has_generators is FALSE where the       *)
(* table is None.                                                          *)
(***************************************************************************)
OnOff == << <<"on", 1600>>, <<"off", 1600>> >>

Cover == << <<"open", 1568>>, <<"closed", 1568>>, <<"opening", 32>>, <<"closing", 32>> >>

NoArgs(names) == [i \in 1..Len(names) |-> <<names[i], <<>> >>]

DeviceType(name, possible_states, services) ==
  [name |-> name, possible_states |-> possible_states, services |-> services,
   has_generators |-> FALSE, generators |-> {}]

LightDeviceType ==
  [name |-> "light", possible_states |-> OnOff,
   services |-> << <<"turn_on", <<"rgb_color", "brightness">> >>,
                   <<"turn_off", <<>> >>, <<"toggle", <<>> >> >>,
   has_generators |-> TRUE, generators |-> {"rgb_color", "brightness"}]

ClimateDeviceType ==
  [name |-> "climate", possible_states |-> <<>>,
   services |-> << <<"turn_on", <<>> >>, <<"turn_off", <<>> >>, <<"toggle", <<>> >>,
                   <<"set_temperature", <<"temperature">> >>,
                   <<"set_humidity", <<"humidity">> >>,
                   <<"set_fan_mode", <<"fan_mode">> >>,
                   <<"set_hvac_mode", <<"hvac_mode">> >>,
                   <<"set_preset_mode", <<"preset_mode">> >> >>,
   has_generators |-> TRUE,
   generators |-> {"fan_mode", "temp_f", "temp_c", "humidity", "preset_mode", "hvac_mode"}]

MediaPlayerDeviceType ==
  [name |-> "media_player",
   possible_states |-> << <<"on", 480>>, <<"off", 1728>>, <<"idle", 320>>,
                          <<"playing", 320>>, <<"paused", 160>>, <<"standby", 160>>,
                          <<"buffering", 32>> >>,
   services |-> NoArgs(<<"turn_on", "turn_off", "toggle", "volume_up", "volume_down",
                         "volume_mute", "media_play_pause", "media_play", "media_pause",
                         "media_stop", "media_next_track", "media_previous_track">>),
   has_generators |-> TRUE, generators |-> {"media", "volume"}]

TimerDeviceType ==
  [name |-> "timer",
   possible_states |-> << <<"idle", 640>>, <<"active", 1920>>, <<"paused", 320>> >>,
   services |-> << <<"start", <<"duration">> >>, <<"pause", <<>> >>, <<"cancel", <<>> >> >>,
   has_generators |-> TRUE, generators |-> {"duration", "remaining"}]

TodoDeviceType ==
  [name |-> "timer",
   possible_states |-> [i \in 1..32 |-> <<ToString(i - 1), 100>>],
   services |-> << <<"add_item", <<"item">> >>, <<"pause", <<>> >>, <<"cancel", <<>> >> >>,
   has_generators |-> TRUE, generators |-> {"todo"}]

\* the keys of SUPPORTED_DEVICES, in insertion order
DeviceKeys == <<"light", "switch", "fan", "garage_door", "blinds", "lock",
                "media_player", "climate", "vacuum", "timer", "todo">>

SUPPORTED_DEVICES ==
  [k \in Range(DeviceKeys) |->
    CASE k = "light" -> LightDeviceType
      [] k = "switch" -> DeviceType("switch", OnOff, NoArgs(<<"turn_on", "turn_off", "toggle">>))
      [] k = "fan" -> DeviceType("fan", OnOff,
                        NoArgs(<<"turn_on", "turn_off", "toggle", "increase_speed", "decrease_speed">>))
      [] k = "garage_door" -> DeviceType("garage_door", Cover,
                        NoArgs(<<"open_cover", "close_cover", "stop_cover", "toggle">>))
      [] k = "blinds" -> DeviceType("blinds", Cover,
                        NoArgs(<<"open_cover", "close_cover", "stop_cover", "toggle">>))
      [] k = "lock" -> DeviceType("lock", << <<"locked", 1600>>, <<"unlocked", 1600>> >>,
                        NoArgs(<<"lock", "unlock">>))
      [] k = "media_player" -> MediaPlayerDeviceType
      [] k = "climate" -> ClimateDeviceType
      [] k = "vacuum" -> DeviceType("vacuum",
                        << <<"cleaning", 640>>, <<"docked", 1920>>, <<"returning", 320>>,
                           <<"idle", 160>>, <<"paused", 160>> >>,
                        NoArgs(<<"start", "pause", "stop", "return_to_base">>))
      [] k = "timer" -> TimerDeviceType
      [] k = "todo" -> TodoDeviceType]

(***************************************************************************)
(* Corpora read at import time that the parameter generators use.          *)
(***************************************************************************)
\* pile_of_durations: duration code -> english_name, in file order
pile_of_durations == << <<"00:05:00", "five minutes">>, <<"01:00:00", "one hour">> >>

pile_of_media_names == <<"Jazz FM", "The News">>

pile_of_todo_items == <<"buy milk", "call mom">>

DurationName(code) ==
  LET i == CHOOSE j \in 1..Len(pile_of_durations) : pile_of_durations[j][1] = code
  IN pile_of_durations[i][2]

\* str() of round(random.random(), 2) for a draw in hundredths
StrVolume(r) ==
  IF r = 0 THEN "0.0"
  ELSE IF r % 10 = 0 THEN "0." \o ToString(r \div 10)
  ELSE IF r < 10 THEN "0.0" \o ToString(r)
  ELSE "0." \o ToString(r)

\* f"{n:02}"
Pad2(n) == IF n < 10 THEN "0" \o ToString(n) ELSE ToString(n)

(***************************************************************************)
(* DeviceType.get_random_parameter: the values the generator registered    *)
(* under param_name can return.  The call raises (TypeError on a None      *)
(* table, KeyError on a missing name) exactly when HasGenerator is false.  *)
(***************************************************************************)
HasGenerator(key, param_name) ==
  /\ SUPPORTED_DEVICES[key].has_generators
  /\ param_name \in SUPPORTED_DEVICES[key].generators

get_random_parameter(key, param_name) ==
  CASE key = "light" /\ param_name = "rgb_color" ->
         { <<r, g, b>> : r \in RandInt(0, 255), g \in RandInt(0, 255), b \in RandInt(0, 255) }
    [] key = "light" /\ param_name = "brightness" -> RandInt(0, 100)
    [] key = "climate" /\ param_name = "fan_mode" ->
         DrawChoice(<<"On Low", "On High", "Auto Low", "Auto High", "Off">>)
    [] key = "climate" /\ param_name = "temp_f" -> RandInt(60, 80)
    [] key = "climate" /\ param_name = "temp_c" -> RandInt(15, 25)
    [] key = "climate" /\ param_name = "humidity" -> RandInt(10, 90)
    [] key = "climate" /\ param_name = "preset_mode" ->
         DrawChoice(<<"home", "eco", "away", "auto">>)
    [] key = "climate" /\ param_name = "hvac_mode" ->
         DrawChoice(<<"heat", "cool", "heat_cool", "off", "auto", "fan_only">>)
    [] key = "media_player" /\ param_name = "media" -> DrawChoice(pile_of_media_names)
    [] key = "media_player" /\ param_name = "volume" -> { StrVolume(r) : r \in Random }
    [] key = "timer" /\ param_name = "duration" ->
         DrawChoice([i \in 1..Len(pile_of_durations) |-> pile_of_durations[i][1]])
    [] key = "timer" /\ param_name = "remaining" ->
         { Pad2(h) \o ":" \o ToString(m) \o ":" \o ToString(sec) :
             h \in RandInt(0, 3), m \in RandInt(0, 60), sec \in RandInt(0, 60) }
    [] key = "todo" /\ param_name = "todo" -> DrawChoice(pile_of_todo_items)
    [] OTHER -> {}

(***************************************************************************)
(* get_random_state: the set of state strings a call can return.  A state  *)
(* string is kept as the sequence of its ';'-separated fragments.          *)
(***************************************************************************)
\* DeviceType.get_random_state: random.choices(states, weights=weights, k=1)[0]
BaseRandomState(key) ==
  LET ps == SUPPORTED_DEVICES[key].possible_states
  IN { <<ps[i][1]>> : i \in { j \in 1..Len(ps) : ps[j][2] > 0 } }

LightRandomState(exposed) ==
  { base \o color \o bright :
      base \in BaseRandomState("light"),
      color \in UNION { IF r < 50 /\ Contains(exposed, "rgb_color")
                        THEN { <<closest_color(c) \o " " \o StrRgb(c)>> :
                                 c \in get_random_parameter("light", "rgb_color") }
                        ELSE { <<>> } : r \in Random },
      bright \in UNION { IF r < 70 /\ Contains(exposed, "brightness")
                         THEN { <<ToString(b) \o "%">> :
                                  b \in get_random_parameter("light", "brightness") }
                         ELSE { <<>> } : r \in Random } }

ClimateRandomState(exposed) ==
  { <<mode>> \o fan \o temp \o hum \o preset :
      mode \in get_random_parameter("climate", "hvac_mode"),
      fan \in IF Contains(exposed, "fan_mode")
              THEN { <<f>> : f \in get_random_parameter("climate", "fan_mode") }
              ELSE { <<>> },
      temp \in IF Contains(exposed, "temperature")
               THEN UNION { IF r > 50
                            THEN { <<ToString(t) \o "F">> :
                                     t \in get_random_parameter("climate", "temp_f") }
                            ELSE { <<ToString(t) \o "C">> :
                                     t \in get_random_parameter("climate", "temp_c") }
                            : r \in Random }
               ELSE { <<>> },
      hum \in IF Contains(exposed, "humidity")
              THEN { <<ToString(h) \o "%">> : h \in get_random_parameter("climate", "humidity") }
              ELSE { <<>> },
      preset \in UNION { IF r < 80 /\ Contains(exposed, "preset_mode")
                         THEN { <<p>> : p \in get_random_parameter("climate", "preset_mode") }
                         ELSE { <<>> } : r \in Random } }

\* MediaPlayerRandomState with a title for every state once media_title is exposed
MediaPlayerRandomStateTitled(exposed) ==
  UNION { LET titled ==
                IF Contains(exposed, "media_title")
                THEN { base \o <<t>> : t \in get_random_parameter("media_player", "media") }
                ELSE { base }
          IN UNION { IF Contains(exposed, "volume_level") /\ st # <<"off">>
                     THEN { st \o <<"vol=" \o v>> :
                              v \in get_random_parameter("media_player", "volume") }
                     ELSE { st } : st \in titled }
          : base \in BaseRandomState("media_player") }

MediaPlayerRandomState(exposed) ==
  UNION { LET titled ==
                IF Contains(exposed, "media_title")
                   /\ base \in { <<"playing">>, <<"paused">>, <<"buffering">>, <<"on">> }
                THEN { base \o <<t>> : t \in get_random_parameter("media_player", "media") }
                ELSE { base }
          IN UNION { IF Contains(exposed, "volume_level") /\ st # <<"off">>
                     THEN { st \o <<"vol=" \o v>> :
                              v \in get_random_parameter("media_player", "volume") }
                     ELSE { st } : st \in titled }
          : base \in BaseRandomState("media_player") }

\* SUPPORTED_DEVICES[key].get_random_state(extra_exposed_attributes)
get_random_state(key, exposed) ==
  CASE key = "light" -> LightRandomState(exposed)
    [] key = "climate" -> ClimateRandomState(exposed)
    [] key = "media_player" -> MediaPlayerRandomState(exposed)
    [] OTHER -> BaseRandomState(key)

(***************************************************************************)
(* Text.  A text is a sequence of tokens; the tokens var_pattern           *)
(* ("<(.*?)>") matches are the placeholders "<name>".                      *)
(***************************************************************************)
\* the placeholder names of the model, in the order sorted() gives them
VarNames == <<"brightness", "color", "device_name", "device_name1", "device_name2",
              "duration", "fan_mode", "humidity", "hvac_mode", "media", "remaining",
              "temp_c", "temp_f", "todo", "volume">>

Placeholder(name) == "<" \o name \o ">"

IsPlaceholder(tok) == \E i \in 1..Len(VarNames) : tok = Placeholder(VarNames[i])

VarOf(tok) == VarNames[CHOOSE i \in 1..Len(VarNames) : tok = Placeholder(VarNames[i])]

\* var_pattern.findall(text): the names, in order of occurrence
findall(text) ==
  LET at == SelectSeq([i \in 1..Len(text) |-> text[i]], IsPlaceholder)
  IN [i \in 1..Len(at) |-> VarOf(at[i])]

\* "device_name" in var, a substring test
ContainsDeviceName(var) == var \in {"device_name", "device_name1", "device_name2"}

\* token in text, for a placeholder token
HasToken(text, tok) == Contains(text, tok)

\* text.replace(old, new) for a token old and a token new
Replace(text, old, new) == [i \in 1..Len(text) |-> IF text[i] = old THEN new ELSE text[i]]

\* the cased tokens of the corpora and their str.lower()
LowerCase ==
  [t \in {"Turn", "Den Light", "Den Lamp", "TV Switch", "Hall Thermostat", "Loft Thermostat",
          "OK", "Arr", "Den", "Tv", "A", "On Low", "Jazz FM", "The News", "How",
          "Hall Sensor", "Lamp", "Door Lock"} |->
    CASE t = "Turn" -> "turn" [] t = "Den Light" -> "den light" [] t = "Den Lamp" -> "den lamp"
      [] t = "TV Switch" -> "tv switch" [] t = "Hall Thermostat" -> "hall thermostat"
      [] t = "Loft Thermostat" -> "loft thermostat" [] t = "OK" -> "ok" [] t = "Arr" -> "arr"
      [] t = "Den" -> "den" [] t = "Tv" -> "tv" [] t = "A" -> "a" [] t = "On Low" -> "on low"
      [] t = "Jazz FM" -> "jazz fm" [] t = "The News" -> "the news" [] t = "How" -> "how"
      [] t = "Hall Sensor" -> "hall sensor" [] t = "Lamp" -> "lamp"
      [] t = "Door Lock" -> "door lock"]

\* str.lower(), token by token
Lower(text) ==
  [i \in 1..Len(text) |-> IF text[i] \in DOMAIN LowerCase THEN LowerCase[text[i]] ELSE text[i]]

\* upper case of the letters device identifiers use
UpperChar ==
  [c \in {"a", "d", "e", "h", "l", "n", "o", "t", "v"} |->
    CASE c = "a" -> "A" [] c = "d" -> "D" [] c = "e" -> "E" [] c = "h" -> "H"
      [] c = "l" -> "L" [] c = "n" -> "N" [] c = "o" -> "O" [] c = "t" -> "T" [] c = "v" -> "V"]

RECURSIVE TitleFrom(_, _)
\* str.title(): a letter that follows an uncased character is upper-cased
TitleFrom(cs, after_cased) ==
  IF cs = <<>> THEN <<>>
  ELSE LET c == Head(cs)
           cased == c \in DOMAIN UpperChar
       IN <<IF cased /\ ~after_cased THEN UpperChar[c] ELSE c>> \o TitleFrom(Tail(cs), cased)

\* identifier.replace("_", " ").title()
FriendlyName(cs) == Str(TitleFrom([i \in 1..Len(cs) |-> IF cs[i] = "_" THEN " " ELSE cs[i]], FALSE))

RECURSIVE SortedFrom(_, _)
\* sorted(names): every name as often as it occurs, in the order of VarNames
SortedFrom(names, k) ==
  IF k > Len(VarNames) THEN <<>>
  ELSE SelectSeq(names, LAMBDA v : v = VarNames[k]) \o SortedFrom(names, k + 1)

sorted(names) == SortedFrom(names, 1)

RECURSIVE Join(_, _)
\* sep.join(names)
Join(names, sep) ==
  IF names = <<>> THEN ""
  ELSE IF Len(names) = 1 THEN names[1]
  ELSE names[1] \o sep \o Join(Tail(names), sep)

\* list(set(names)) in the order sorted() then gives it: each name once
SortedSet(name_set) == SortedFrom(SelectSeq(VarNames, LAMBDA v : v \in name_set), 1)

(***************************************************************************)
(* The response corpus and its index column contains_vars.                 *)
(***************************************************************************)
get_included_vars(response) ==
  Join(sorted(SelectSeq(findall(response), LAMBDA v : v # "device_name")), ",")

ResponseRow(service, language, persona, short, response) ==
  [service |-> service, language |-> language, persona |-> persona, short |-> short,
   response |-> response, contains_vars |-> get_included_vars(response)]

\* piles/pile_of_responses.csv with the contains_vars column added at import
pile_of_responses ==
  << ResponseRow("light.turn_on", "en", "assistant", 0, <<"OK", "turning", "on", "<device_name>">>),
     ResponseRow("light.turn_on", "en", "assistant", 0, <<"<device_name>", "is", "now", "on">>),
     ResponseRow("light.turn_on", "en", "pirate", 0, <<"Arr", "<device_name>", "be", "lit">>),
     ResponseRow("light.turn_on", "en", "assistant", 1, <<"lighting", "<device_name>">>),
     ResponseRow("light.turn_on", "en", "assistant", 0,
                 <<"setting", "<device_name>", "to", "<brightness>", "percent">>),
     ResponseRow("light.turn_on", "en", "assistant", 0,
                 <<"setting", "<device_name>", "to", "<brightness>", "and", "<color>">>),
     ResponseRow("light.turn_on", "en", "assistant", 1,
                 <<"lighting", "<device_name>", "at", "<temp_f>">>),
     ResponseRow("climate.set_temperature", "en", "assistant", 1,
                 <<"setting", "<device_name>", "to", "<temp_f>">>),
     ResponseRow("climate.set_temperature", "en", "assistant", 0,
                 <<"setting", "<device_name>", "to", "<temp_f>", "and", "<humidity>">>),
     ResponseRow("switch.turn_off", "en", "assistant", 0, <<"switching", "off", "<device_name>">>),
     ResponseRow("switch.turn_off", "en", "pirate", 0, <<"Arr", "<device_name>", "be", "off">>),
     ResponseRow("light.turn_on", "en", "pirate", 0,
                 <<"Arr", "<device_name>", "be", "at", "<brightness>">>),
     ResponseRow("light.turn_on", "en", "pirate", 1, <<"Arr", "<device_name>", "<temp_f>">>),
     ResponseRow("climate.set_temperature", "en", "pirate", 1,
                 <<"Arr", "<device_name>", "be", "<temp_f>">>),
     ResponseRow("climate.set_temperature", "en", "assistant", 0,
                 <<"<temp_f>", "it", "is", "<device_name>", "at", "<temp_f>">>),
     ResponseRow("climate.set_temperature", "en", "assistant", 0,
                 <<"setting", "<device_name>", "to", "<temp_f>", "or", "<temp_c>">>) >>

RequiredVars(question_template) ==
  { v \in Range(findall(question_template)) : ~ContainsDeviceName(v) }

\* possible_results with a row kept as soon as it mentions every required variable
possible_results_covering(service, language, persona, question_template, short) ==
  LET required_vars == RequiredVars(question_template)
  IN SelectSeq(pile_of_responses,
       LAMBDA row : /\ row.service = service
                    /\ row.language = language
                    /\ row.persona = persona
                    /\ row.short = (IF short THEN 1 ELSE 0)
                    /\ required_vars \subseteq Range(findall(row.response)))

\* the rows get_random_response samples from
possible_results(service, language, persona, question_template, short) ==
  LET required_vars == RequiredVars(question_template)
  IN SelectSeq(pile_of_responses,
       LAMBDA row : /\ row.service = service
                    /\ row.language = language
                    /\ row.persona = persona
                    /\ row.short = (IF short THEN 1 ELSE 0)
                    /\ row.contains_vars = Join(SortedSet(required_vars), ","))

\* str() of the NoResponseAvailableException get_random_response raises
NoResponseMessage(service, language, persona, question_template, short) ==
  [persona |-> persona, service |-> service, language |-> language,
   required_vars |-> RequiredVars(question_template), short |-> short]

(***************************************************************************)
(* The corpora of the model.  Strings the code splits or searches are      *)
(* sequences of characters.                                                *)
(***************************************************************************)
\* the mark of a key a row dict does not have
NoKey == "(no key)"

DeviceRow(device_name, description) ==
  [device_name |-> device_name, description |-> description, type |-> NoKey]

\* the contents piles/pile_of_device_names.csv can have
DeviceNameCorpora ==
  [home |-> << DeviceRow(<<"l", "i", "g", "h", "t", ".", "d", "e", "n">>, "Den Light"),
               DeviceRow(<<"l", "i", "g", "h", "t", ".", "d", "e", "n", "2">>, "Den Lamp"),
               DeviceRow(<<"s", "w", "i", "t", "c", "h", ".", "t", "v">>, "TV Switch"),
               DeviceRow(<<"s", "e", "n", "s", "o", "r", ".", "h", "a", "l", "l">>, "Hall Sensor"),
               DeviceRow(<<"l", "o", "c", "k", ".", "d", "o", "o", "r">>, "Door Lock"),
               DeviceRow(<<"c", "l", "i", "m", "a", "t", "e", ".", "h", "a", "l", "l">>, "Hall Thermostat") >>,
   noclimate |-> << DeviceRow(<<"l", "i", "g", "h", "t", ".", "d", "e", "n">>, "Den Light"),
                    DeviceRow(<<"s", "w", "i", "t", "c", "h", ".", "t", "v">>, "TV Switch"),
                    DeviceRow(<<"l", "o", "c", "k", ".", "d", "o", "o", "r">>, "Door Lock") >>,
   pair |-> << DeviceRow(<<"l", "i", "g", "h", "t", ".", "d", "e", "n">>, "Den Light"),
               DeviceRow(<<"s", "w", "i", "t", "c", "h", ".", "t", "v">>, "TV Switch") >>,
   single |-> << DeviceRow(<<"l", "i", "g", "h", "t", ".", "d", "e", "n">>, "Den Light") >>,
   climates |-> << DeviceRow(<<"s", "w", "i", "t", "c", "h", ".", "t", "v">>, "TV Switch"),
                   DeviceRow(<<"l", "o", "c", "k", ".", "d", "o", "o", "r">>, "Door Lock"),
                   DeviceRow(<<"c", "l", "i", "m", "a", "t", "e", ".", "h", "a", "l", "l">>, "Hall Thermostat"),
                   DeviceRow(<<"c", "l", "i", "m", "a", "t", "e", ".", "l", "o", "f", "t">>, "Loft Thermostat") >>]

\* piles/pile_of_specific_actions.csv
pile_of_specific_actions ==
  << [english_phrase |-> <<"Turn", "on", "the", "den", "light">>,
      service_name |-> <<"l", "i", "g", "h", "t", ".", "t", "u", "r", "n", "_", "o", "n">>, device_name |-> <<"d", "e", "n">>],
     [english_phrase |-> <<"switch", "off", "the", "tv">>,
      service_name |-> <<"s", "w", "i", "t", "c", "h", ".", "t", "u", "r", "n", "_", "o", "f", "f">>, device_name |-> <<"t", "v">>],
     [english_phrase |-> <<"Lamp", "on">>,
      service_name |-> <<"l", "i", "g", "h", "t", ".", "t", "u", "r", "n", "_", "o", "n">>, device_name |-> <<"d", "e", "n", "2">>] >>

\* the rows of piles/pile_of_templated_actions.csv
templated_actions_csv ==
  << [device_type |-> <<"l", "i", "g", "h", "t">>, service |-> <<"t", "u", "r", "n", "_", "o", "n">>, multiplier |-> "1",
      english_phrase |-> <<"set", "<device_name>", "to", "<brightness>", "percent">>],
     [device_type |-> <<"l", "i", "g", "h", "t", "|", "c", "l", "i", "m", "a", "t", "e">>, service |-> <<"t", "u", "r", "n", "_", "o", "n", "|", "s", "e", "t", "_", "t", "e", "m", "p", "e", "r", "a", "t", "u", "r", "e">>, multiplier |-> "1",
      english_phrase |-> <<"Turn", "on", "<device_name1>", "and", "set", "<device_name2>",
                           "to", "<temp_f>", "degrees">>] >>

RECURSIVE Repeat(_, _)
Repeat(e, n) == IF n <= 0 THEN <<>> ELSE <<e>> \o Repeat(e, n - 1)

\* the texts int() accepts among the multiplier fields of the model, with
\* their values; on any other field (a word, a decimal, an empty field) int()
\* raises ValueError
IntLiterals ==
  [t \in {"0", "1", "2", "-1", " 2"} |->
    CASE t = "0" -> 0 [] t = "1" -> 1 [] t = "2" -> 2 [] t = "-1" -> 0 - 1 [] t = " 2" -> 2]

int(text) == IntLiterals[text]

\* int(action["multiplier"]) raises for some row: the load raises Exception
BadMultiplier(rows) == \E i \in 1..Len(rows) : rows[i].multiplier \notin DOMAIN IntLiterals

\* the expansion with every row appended once, whatever its multiplier
ExpandTemplatedOnce(rows) == rows

RECURSIVE ExpandTemplated(_)
\* processed_pile_of_templated_actions: "for x in range(multiplier)" appends
\* the row; range of a number below 1 is empty
ExpandTemplated(rows) ==
  IF rows = <<>> THEN <<>>
  ELSE Repeat(Head(rows), int(Head(rows).multiplier)) \o ExpandTemplated(Tail(rows))

pile_of_templated_actions == ExpandTemplated(templated_actions_csv)

\* piles/pile_of_status_requests.csv
pile_of_status_requests ==
  << [device_type |-> "light", state |-> <<"on", "<brightness>">>,
      english_phrase |-> <<"How", "bright", "is", "<device_name>">>,
      assistant_response |-> <<"<device_name>", "is", "at", "<brightness>", "percent">>],
     [device_type |-> "climate", state |-> <<"cool", "<temp_c>", "<humidity>">>,
      english_phrase |-> <<"what", "does", "<device_name>", "read">>,
      assistant_response |-> <<"it", "reads", "<temp_c>", "and", "<humidity>">>] >>

\* extra_exposed_attributes of random_device_list
ExposedAttributes ==
  <<"rgb_color", "brightness", "temperature", "humidity", "fan_mode", "media_title",
    "volume_level", "duration", "remaining", "item">>

\* stacks_of_device_names after the import-time loop: a row whose type is no
\* key of SUPPORTED_DEVICES raises KeyError, which is printed and skipped
LoadStacks(pile_of_device_names) ==
  [k \in Range(DeviceKeys) |->
     SelectSeq(pile_of_device_names, LAMBDA row : Str(Split(row.device_name, ".")[1]) = k)]

(***************************************************************************)
(* DeviceType.get_all_services.  args is a Python set of strings, and      *)
(* ','.join(args) takes its elements in the set's iteration order, which   *)
(* the string hash of the process decides: any order can come out.         *)
(***************************************************************************)
Orderings(S) ==
  { p \in [1..Cardinality(S) -> S] : \A i, j \in 1..Cardinality(S) : p[i] = p[j] => i = j }

ServiceString(name, service, args) == name \o "." \o service \o "(" \o Join(args, ",") \o ")"

\* ServiceArgs with every exposed attribute taken as an argument
ServiceArgsExposed(service_entry, extra_exposed_attributes) ==
  Orderings(Range(extra_exposed_attributes))

\* args = set(extra_exposed_attributes).intersection(self.services[service]),
\* under the iteration orders the hash can give
ServiceArgs(service_entry, extra_exposed_attributes) ==
  Orderings(Range(extra_exposed_attributes) \cap Range(service_entry[2]))

\* the entry appended for one service: its arguments and the string rendered
ServiceOutcomes(key, service_entry, extra_exposed_attributes) ==
  { [service |-> service_entry[1], args |-> args,
     text |-> ServiceString(SUPPORTED_DEVICES[key].name, service_entry[1], args)] :
      args \in ServiceArgs(service_entry, extra_exposed_attributes) }

RECURSIVE ServicesFrom(_, _, _)
ServicesFrom(key, extra_exposed_attributes, k) ==
  LET services == SUPPORTED_DEVICES[key].services
  IN IF k > Len(services) THEN { <<>> }
     ELSE { <<first>> \o rest :
              first \in ServiceOutcomes(key, services[k], extra_exposed_attributes),
              rest \in ServicesFrom(key, extra_exposed_attributes, k + 1) }

\* the lists get_all_services can return
get_all_services(key, extra_exposed_attributes) ==
  { [i \in 1..Len(entries) |-> entries[i].text] :
      entries \in ServicesFrom(key, extra_exposed_attributes, 1) }

\* the multiset of a list, as a function from its elements to their counts:
\* what sorted(example["available_services"]) of the formatters keeps of it
BagOf(s) == [e \in Range(s) |-> Cardinality({ i \in 1..Len(s) : s[i] = e })]

RECURSIVE ServicesOfTypes(_, _)
\* available_services: the services of every type of the set, appended type by
\* type (types is any enumeration of the set: the multiset does not depend on it)
ServicesOfTypes(types, extra_exposed_attributes) ==
  IF types = <<>> THEN { <<>> }
  ELSE { first \o rest :
           first \in get_all_services(Head(types), extra_exposed_attributes),
           rest \in ServicesOfTypes(Tail(types), extra_exposed_attributes) }

\* an enumeration of a set of registry keys
KeysIn(type_set) == SelectSeq(DeviceKeys, LAMBDA k : k \in type_set)

AvailableServices(type_set, extra_exposed_attributes) ==
  { BagOf(services) : services \in ServicesOfTypes(KeysIn(type_set), extra_exposed_attributes) }

(***************************************************************************)
(* Device lines.                                                           *)
(***************************************************************************)
\* format_device_line: f"{device_name} '{friendly_name}' = {state}"
format_device_line(device_name, friendly_name, state) ==
  [device_name |-> device_name, quoted |-> TRUE, friendly_name |-> friendly_name,
   state |-> state]

\* f"{device_name} = {state_name}" of generate_status_request
StatusLine(device_name, state_name) ==
  [device_name |-> device_name, quoted |-> FALSE, friendly_name |-> "", state |-> state_name]

\* device_name.split(".")[0] as a registry key
TypeOf(device_name) == Str(Split(device_name, ".")[1])

(***************************************************************************)
(* random_device_list up to its sampling loop: the per-type candidate      *)
(* lists after the similarity filter, flattened in the order of the dict.  *)
(***************************************************************************)
\* similarity_ratio < 0.4 for the avoided name and a candidate row
KeepsCandidate(avoid_device, possible_device) ==
  BelowThreshold(ratio(avoid_device, Split(possible_device.device_name, ".")[2]))

RECURSIVE FilterAvoided(_, _)
\* local_device_names after the loop over avoid_device_names
FilterAvoided(local_device_names, avoid_device_names) ==
  IF avoid_device_names = <<>> THEN local_device_names
  ELSE LET avoid_device == Head(avoid_device_names)
           avoid_type == TypeOf(avoid_device)
       IN FilterAvoided(
            [local_device_names EXCEPT ![avoid_type] =
               SelectSeq(@, LAMBDA possible_device : KeepsCandidate(avoid_device, possible_device))],
            Tail(avoid_device_names))

RECURSIVE Flatten(_, _)
Flatten(local_device_names, k) ==
  IF k > Len(DeviceKeys) THEN <<>>
  ELSE local_device_names[DeviceKeys[k]] \o Flatten(local_device_names, k + 1)

PossibleChoices(stacks, avoid_device_names) ==
  Flatten(FilterAvoided(stacks, avoid_device_names), 1)

\* AvoidClimate when avoid_climate stays False
AvoidClimateNever(avoid_device_names) == FALSE

\* avoid_climate after the loop over avoid_device_names
AvoidClimate(avoid_device_names) ==
  \E i \in 1..Len(avoid_device_names) : TypeOf(avoid_device_names[i]) = "climate"

(***************************************************************************)
(* The assemblers after random_device_list has returned.                   *)
(***************************************************************************)
\* needle in hay, for sequences of characters
IsSubstring(needle, hay) ==
  \E i \in 0..(Len(hay) - Len(needle)) : SubSeq(hay, i + 1, i + Len(needle)) = needle

\* [ f"{x}.{y}" for x, y in zip(types, services) ]
ZipServiceNames(types, services) ==
  [i \in 1..Min(Len(types), Len(services)) |-> types[i] \o <<".">> \o services[i]]

\* the appends generate_templated_example makes to extra_exposed_attributes
TemplatedExposed(question_template, exposed) ==
  LET Add(e, cond, attr) == IF cond /\ ~Contains(e, attr) THEN Append(e, attr) ELSE e
      e1 == Add(exposed, HasToken(question_template, "<brightness>"), "brightness")
      e2 == Add(e1, HasToken(question_template, "<color>"), "rgb_color")
      e3 == Add(e2, HasToken(question_template, "<temp_f>")
                     \/ HasToken(question_template, "<temp_c>"), "temperature")
      e4 == Add(e3, HasToken(question_template, "<humidity>"), "humidity")
      e5 == Add(e4, HasToken(question_template, "<fan_mode>"), "fan_mode")
  IN Add(e5, HasToken(question_template, "<duration>"), "duration")

RECURSIVE InsertTargets(_, _, _)
\* the loop that inserts every chosen device at a random index
InsertTargets(device_list, chosen, exposed) ==
  IF chosen = <<>> THEN { device_list }
  ELSE UNION { InsertTargets(
                 InsertAt(device_list, index,
                          format_device_line(Head(chosen).device_name,
                                             Head(chosen).description, state)),
                 Tail(chosen), exposed) :
               index \in 0..Len(device_list),
               state \in get_random_state(Head(chosen).type, exposed) }

\* WithField with the key put into the first call of the batch only
WithFieldFirst(service_calls, key, value) ==
  [i \in 1..Len(service_calls) |->
     IF i = 1 THEN (key :> value) @@ service_calls[i] ELSE service_calls[i]]

\* { **call, key: value } for every call of the batch
WithField(service_calls, key, value) ==
  [i \in 1..Len(service_calls) |-> (key :> value) @@ service_calls[i]]

\* Substitute with the answer left as it is
SubstituteQuestion(w, token, shown, key, value) ==
  [question |-> Replace(w.question, token, shown),
   answer |-> w.answer,
   service_calls |-> WithField(w.service_calls, key, value)]

\* one substitution pass: the placeholder is replaced in question and answer
\* and the value is put into every service call
Substitute(w, token, shown, key, value) ==
  [question |-> Replace(w.question, token, shown),
   answer |-> Replace(w.answer, token, shown),
   service_calls |-> WithField(w.service_calls, key, value)]

\* a pass that runs when its placeholder is in the question
Pass(ws, token, outcomes(_)) ==
  UNION { IF HasToken(w.question, token) THEN outcomes(w) ELSE { w } : w \in ws }

\* webcolors.name_to_rgb
name_to_rgb(name) ==
  CSS3_HEX_TO_NAMES[CHOOSE i \in 1..Len(CSS3_HEX_TO_NAMES) : CSS3_HEX_TO_NAMES[i][1] = name][2]

AnyService(service_names, word) ==
  \E i \in 1..Len(service_names) : IsSubstring(word, service_names[i])

ClimatePasses(ws) ==
  LET hvac == Pass(ws, "<hvac_mode>", LAMBDA w :
                { Substitute(w, "<hvac_mode>", v, "hvac_mode", v) :
                    v \in get_random_parameter("climate", "hvac_mode") })
      fan == Pass(hvac, "<fan_mode>", LAMBDA w :
                { Substitute(w, "<fan_mode>", v, "fan_mode", v) :
                    v \in get_random_parameter("climate", "fan_mode") })
      tf == Pass(fan, "<temp_f>", LAMBDA w :
                { Substitute(w, "<temp_f>", ToString(v), "temperature", v) :
                    v \in get_random_parameter("climate", "temp_f") })
      tc == Pass(tf, "<temp_c>", LAMBDA w :
                { Substitute(w, "<temp_c>", ToString(v), "temperature", v) :
                    v \in get_random_parameter("climate", "temp_c") })
  IN Pass(tc, "<humidity>", LAMBDA w :
                { Substitute(w, "<humidity>", ToString(v), "humidity", v) :
                    v \in get_random_parameter("climate", "humidity") })

LightPasses(ws) ==
  LET bright == Pass(ws, "<brightness>", LAMBDA w :
                  \* round(brightness / 100, 2), kept as the fraction <<brightness, 100>>
                  { Substitute(w, "<brightness>", ToString(v), "brightness", <<v, 100>>) :
                      v \in get_random_parameter("light", "brightness") })
  IN Pass(bright, "<color>", LAMBDA w :
                  { Substitute(w, "<color>", closest_color(c), "rgb_color",
                               StrRgb(name_to_rgb(closest_color(c)))) :
                      c \in get_random_parameter("light", "rgb_color") })

TimerPasses(ws) ==
  Pass(ws, "<duration>", LAMBDA w :
         { Substitute(w, "<duration>", DurationName(v), "duration", v) :
             v \in get_random_parameter("timer", "duration") })

TodoPasses(ws) ==
  Pass(ws, "<todo>", LAMBDA w :
         { Substitute(w, "<todo>", v, "item", v) : v \in get_random_parameter("todo", "todo") })

\* the four conditional groups of passes, in the order of the code
SubstitutionPasses(w, service_names) ==
  LET c == IF AnyService(service_names, <<"c", "l", "i", "m", "a", "t", "e">>) THEN ClimatePasses({ w }) ELSE { w }
      l == IF AnyService(service_names, <<"l", "i", "g", "h", "t">>) THEN LightPasses(c) ELSE c
      t == IF AnyService(service_names, <<"t", "i", "m", "e", "r">>) THEN TimerPasses(l) ELSE l
  IN IF AnyService(service_names, <<"t", "o", "d", "o">>) THEN TodoPasses(t) ELSE t

RECURSIVE JoinTexts(_, _)
\* sep.join(texts) for a one-token separator
JoinTexts(texts, sep) ==
  IF texts = <<>> THEN <<>>
  ELSE IF Len(texts) = 1 THEN texts[1]
  ELSE texts[1] \o <<sep>> \o JoinTexts(Tail(texts), sep)

RECURSIVE QuestionWithDevices(_, _, _)
\* question.replace(f"<device_name{i + 1}>", description) for every slot
QuestionWithDevices(question, chosen, i) ==
  IF i > Len(chosen) THEN question
  ELSE QuestionWithDevices(
         Replace(question, Placeholder("device_name" \o ToString(i)), chosen[i].description),
         chosen, i + 1)

(***************************************************************************)
(* The state of one run of generate_example_file.                          *)
(***************************************************************************)
VARIABLES
  stacks_of_device_names,  \* key -> list of row dicts (shared, module level)
  cfg,                     \* the arguments of generate_example_file and the corpus loaded
  pos,                     \* where the for loops of the driver stand
  pc,                      \* "loop", "rft", "rdl", "done" or "crashed"
  rft,                     \* the current (or last) call of run_factor_times
  frame,                   \* the locals of the running assembler and of random_device_list
  example,                 \* <<e>> for the Example just appended, else <<>>
  generated_examples,      \* for every appended example: its assembler, item, language, persona
  missing_responses,       \* the set of the messages of the exceptions caught
  printed,                 \* what the report loop printed, one entry per run of the loop
  error,                   \* the exception that ended the run, "" when none
  call                     \* a single call of one function on drawn arguments, and its outcome

vars == <<stacks_of_device_names, cfg, pos, pc, rft, frame, example, generated_examples,
          missing_responses, printed, error, call>>

\* the driver configurations of the model; a factor is in hundredths
Runs ==
  { [corpus |-> "home", languages |-> <<"en">>, personas |-> <<"assistant", "pirate">>,
     static_factor |-> 100, template_factor |-> 100, status_request_factor |-> 100],
    [corpus |-> "home", languages |-> <<"de", "en">>, personas |-> <<"pirate", "assistant">>,
     static_factor |-> 100, template_factor |-> 100, status_request_factor |-> 100],
    [corpus |-> "home", languages |-> <<"en", "de">>, personas |-> <<"assistant">>,
     static_factor |-> MaxFactor * 100, template_factor |-> 100,
     status_request_factor |-> MaxFactor * 100],
    [corpus |-> "home", languages |-> <<"en">>, personas |-> <<"assistant">>,
     static_factor |-> 25, template_factor |-> 0, status_request_factor |-> 25],
    [corpus |-> "noclimate", languages |-> <<"en">>, personas |-> <<"assistant">>,
     static_factor |-> 100, template_factor |-> 100, status_request_factor |-> 100],
    [corpus |-> "pair", languages |-> <<"en">>, personas |-> <<"assistant">>,
     static_factor |-> 100, template_factor |-> 100, status_request_factor |-> 100],
    [corpus |-> "single", languages |-> <<"en">>, personas |-> <<"assistant">>,
     static_factor |-> 100, template_factor |-> 100, status_request_factor |-> 100] }

IdleFrame ==
  [chosen_devices |-> <<>>, avoid_device_names |-> <<>>, num_devices |-> 0,
   avoid_climate |-> FALSE, possible_choices |-> <<>>, device_list |-> <<>>,
   device_lines |-> <<>>, device_types |-> {}]

\* i counts the rounds of range(factor) completed, first is len(examples) at entry
IdleRft == [func |-> "", factor |-> 0, calls |-> 0, i |-> 0, first |-> 0, status |-> "none"]

\* call when no single function is being exercised
NoCall == [op |-> "", args |-> <<>>, result |-> <<>>, raised |-> FALSE, done |-> FALSE]

Pos(phase, lang, person, item) == [phase |-> phase, lang |-> lang, person |-> person, item |-> item]

RECURSIVE Normalize(_, _)
\* the next position at or after p that names an item, in the order of the loops:
\* languages, personas, then the static and the templated corpus; then the
\* status requests, outside the two loops; then the report
Normalize(p, c) ==
  CASE p.phase = "static" ->
         IF p.lang > Len(c.languages) THEN Normalize(Pos("status", 0, 0, 1), c)
         ELSE IF p.person > Len(c.personas) THEN Normalize(Pos("static", p.lang + 1, 1, 1), c)
         ELSE IF p.item > Len(pile_of_specific_actions)
              THEN Normalize(Pos("templated", p.lang, p.person, 1), c)
         ELSE p
    [] p.phase = "templated" ->
         IF p.item > Len(pile_of_templated_actions)
         THEN Normalize(Pos("static", p.lang, p.person + 1, 1), c)
         ELSE p
    [] p.phase = "status" ->
         IF p.item > Len(pile_of_status_requests) THEN Pos("save", 0, 0, 0) ELSE p
    [] OTHER -> p

NextPos == Normalize([pos EXCEPT !.item = @ + 1], cfg)

Init ==
  /\ cfg \in Runs
  /\ stacks_of_device_names = LoadStacks(DeviceNameCorpora[cfg.corpus])
  /\ pos = Normalize(Pos("static", 1, 1, 1), cfg)
  /\ pc = "loop"
  /\ rft = IdleRft
  /\ frame = IdleFrame
  /\ example = <<>>
  /\ generated_examples = <<>>
  /\ missing_responses = {}
  /\ printed = <<>>
  /\ error = ""
  /\ call = NoCall

\* Persona with the first persona passed in every round of the persona loop
PersonaFirst == IF pos.phase = "status" THEN "assistant" ELSE cfg.personas[1]

\* the language and persona the driver passes for the current item
Language == IF pos.phase = "status" THEN "en" ELSE cfg.languages[pos.lang]

Persona == IF pos.phase = "status" THEN "assistant" ELSE cfg.personas[pos.person]

Factor ==
  CASE pos.phase = "static" -> cfg.static_factor
    [] pos.phase = "templated" -> cfg.template_factor
    [] pos.phase = "status" -> cfg.status_request_factor

(***************************************************************************)
(* generate_example_file: the loop headers and run_factor_times.           *)
(***************************************************************************)
\* a for loop of the driver calls run_factor_times for its next item
StartItem ==
  /\ pc = "loop"
  /\ pos.phase \in {"static", "templated", "status"}
  /\ rft' = [func |-> pos.phase, factor |-> Factor, calls |-> 0, i |-> 0,
             first |-> Len(generated_examples), status |-> "running"]
  /\ pc' = "rft"
  /\ example' = <<>>
  /\ UNCHANGED <<stacks_of_device_names, cfg, pos, frame, generated_examples,
                 missing_responses, printed, error, call>>

\* Calls with one more round of range(factor)
CallsOnceMore ==
  /\ pc = "rft"
  /\ IF rft.factor >= 100 THEN rft.i <= rft.factor \div 100
     ELSE rft.calls = 0 /\ \E r \in Random : r < rft.factor

\* run_factor_times is about to call the assembler: the next round of
\* range(factor), or random.random() < factor
Calls ==
  /\ pc = "rft"
  /\ IF rft.factor >= 100 THEN rft.i < rft.factor \div 100
     ELSE rft.calls = 0 /\ \E r \in Random : r < rft.factor

\* run_factor_times returns: range(factor) is used up, or the draw was not
\* below factor, or the one example of that branch is appended
RftReturn ==
  /\ pc = "rft"
  /\ IF rft.factor >= 100 THEN rft.i >= rft.factor \div 100
     ELSE rft.calls > 0 \/ \E r \in Random : ~(r < rft.factor)
  /\ rft' = [rft EXCEPT !.status = "returned"]
  /\ pc' = "loop"
  /\ pos' = NextPos
  /\ example' = <<>>
  /\ frame' = IdleFrame
  /\ UNCHANGED <<stacks_of_device_names, cfg, generated_examples, missing_responses,
                 printed, error, call>>

\* after the loops: the report and the output file
Save ==
  /\ pc = "loop"
  /\ pos.phase = "save"
  /\ printed' = Append(printed, missing_responses)
  /\ pos' = Pos("done", 0, 0, 0)
  /\ pc' = "done"
  /\ UNCHANGED <<stacks_of_device_names, cfg, rft, frame, example, generated_examples,
                 missing_responses, error, call>>

\* an exception no handler catches ends the run
Crash(exception) ==
  /\ pc' = "crashed"
  /\ error' = exception
  /\ frame' = IdleFrame
  /\ UNCHANGED <<stacks_of_device_names, cfg, pos, rft, example, generated_examples,
                 missing_responses, printed, call>>

(***************************************************************************)
(* The assemblers up to the sampling loop of random_device_list.           *)
(***************************************************************************)
\* random_device_list from its first line to the while loop
EnterDeviceList(stacks, chosen, max_devices, avoid_device_names) ==
  \E num_devices \in 2..max_devices :
    frame' = [chosen_devices |-> chosen, avoid_device_names |-> avoid_device_names,
              num_devices |-> num_devices,
              avoid_climate |-> AvoidClimate(avoid_device_names),
              possible_choices |-> PossibleChoices(stacks, avoid_device_names),
              device_list |-> <<>>, device_lines |-> <<>>, device_types |-> {}]

StaticTarget(action) == Split(action.service_name, ".")[1] \o <<".">> \o action.device_name

InvokeStatic ==
  /\ Calls
  /\ rft.func = "static"
  /\ EnterDeviceList(stacks_of_device_names, <<>>, MaxDevices,
                     <<StaticTarget(pile_of_specific_actions[pos.item])>>)
  /\ rft' = [rft EXCEPT !.calls = @ + 1]
  /\ pc' = "rdl"
  /\ example' = <<>>
  /\ UNCHANGED <<stacks_of_device_names, cfg, pos, generated_examples, missing_responses,
                 printed, error, call>>

\* template["device_type"].split("|") as registry keys
TemplateTypes(template) ==
  LET types == Split(template.device_type, "|") IN [i \in 1..Len(types) |-> Str(types[i])]

RECURSIVE ChooseDevices(_, _)
\* the loop "for device_type in template_device_types": the pairs <<stacks,
\* chosen_devices>> it can end with.  device_dict["type"] = device_type writes
\* into the row of the stack: chosen_devices holds the same dict objects
ChooseDevices(stacks, types) ==
  IF types = <<>> THEN { <<stacks, <<>> >> }
  ELSE UNION { LET written == [stacks EXCEPT ![Head(types)][i].type = Head(types)]
               IN { <<rest[1], <<written[Head(types)][i]>> \o rest[2]>> :
                      rest \in ChooseDevices(written, Tail(types)) }
               : i \in 1..Len(stacks[Head(types)]) }

RECURSIVE ChoiceFails(_, _)
\* random.choice raises IndexError on the empty stack of some slot
ChoiceFails(stacks, types) ==
  /\ types # <<>>
  /\ \/ stacks[Head(types)] = <<>>
     \/ ChoiceFails(stacks, Tail(types))

InvokeTemplated ==
  /\ Calls
  /\ rft.func = "templated"
  /\ LET types == TemplateTypes(pile_of_templated_actions[pos.item])
     IN /\ ~ChoiceFails(stacks_of_device_names, types)
        /\ \E result \in ChooseDevices(stacks_of_device_names, types) :
             /\ stacks_of_device_names' = result[1]
             /\ EnterDeviceList(result[1], result[2], MaxDevices,
                                [i \in 1..Len(result[2]) |-> result[2][i].device_name])
  /\ rft' = [rft EXCEPT !.calls = @ + 1]
  /\ pc' = "rdl"
  /\ example' = <<>>
  /\ UNCHANGED <<cfg, pos, generated_examples, missing_responses, printed, error, call>>

InvokeStatus ==
  /\ Calls
  /\ rft.func = "status"
  /\ LET device_type == pile_of_status_requests[pos.item].device_type
     IN \E chosen_device \in random_choice(stacks_of_device_names[device_type]) :
          EnterDeviceList(stacks_of_device_names, <<chosen_device>>, MaxDevices,
                          <<chosen_device.device_name>>)
  /\ rft' = [rft EXCEPT !.calls = @ + 1]
  /\ pc' = "rdl"
  /\ example' = <<>>
  /\ UNCHANGED <<stacks_of_device_names, cfg, pos, generated_examples, missing_responses,
                 printed, error, call>>

\* random.choice(stacks_of_device_names[device_type]) on an empty stack
ChooseIndexError ==
  /\ Calls
  /\ \/ /\ rft.func = "templated"
        /\ ChoiceFails(stacks_of_device_names,
                       TemplateTypes(pile_of_templated_actions[pos.item]))
     \/ /\ rft.func = "status"
        /\ stacks_of_device_names[pile_of_status_requests[pos.item].device_type] = <<>>
  /\ Crash("IndexError")

(***************************************************************************)
(* random_device_list: the sampling loop.                                  *)
(***************************************************************************)
\* RdlIterate without the test "choice["device_name"] in device_list"
RdlIterateRepeating ==
  /\ pc = "rdl"
  /\ Len(frame.device_list) < frame.num_devices
  /\ \E choice \in random_choice(frame.possible_choices) :
       LET device_name == choice.device_name
           device_type == TypeOf(device_name)
       IN IF frame.avoid_climate /\ device_type = "climate"
          THEN UNCHANGED frame
          ELSE \E state \in get_random_state(device_type, ExposedAttributes) :
                 frame' = [frame EXCEPT
                   !.device_lines = Append(@, format_device_line(device_name,
                                                                 choice.description, state)),
                   !.device_list = Append(@, device_name),
                   !.device_types = @ \cup {device_type}]
  /\ UNCHANGED <<stacks_of_device_names, cfg, pos, pc, rft, example, generated_examples,
                 missing_responses, printed, error, call>>

\* one round of "while len(device_list) < num_devices"
RdlIterate ==
  /\ pc = "rdl"
  /\ Len(frame.device_list) < frame.num_devices
  /\ \E choice \in random_choice(frame.possible_choices) :
       LET device_name == choice.device_name
           device_type == TypeOf(device_name)
       IN IF Contains(frame.device_list, device_name)
          THEN UNCHANGED frame
          ELSE IF frame.avoid_climate /\ device_type = "climate"
          THEN UNCHANGED frame
          ELSE \E state \in get_random_state(device_type, ExposedAttributes) :
                 frame' = [frame EXCEPT
                   !.device_lines = Append(@, format_device_line(device_name,
                                                                 choice.description, state)),
                   !.device_list = Append(@, device_name),
                   !.device_types = @ \cup {device_type}]
  /\ UNCHANGED <<stacks_of_device_names, cfg, pos, pc, rft, example, generated_examples,
                 missing_responses, printed, error, call>>

\* random.choice(possible_choices) on an empty list
RdlIndexError ==
  /\ pc = "rdl"
  /\ Len(frame.device_list) < frame.num_devices
  /\ frame.possible_choices = <<>>
  /\ Crash("IndexError")

\* the loop has ended and random_device_list returns
RdlReturned == pc = "rdl" /\ Len(frame.device_list) >= frame.num_devices

(***************************************************************************)
(* The assemblers after random_device_list: either an Example, which       *)
(* run_factor_times formats and appends, or NoResponseAvailableException,  *)
(* which the except clause of the driver's loop catches.                   *)
(***************************************************************************)
\* examples.append(format_func(func(data, language, persona), persona))
Appended(e) ==
  /\ example' = <<e>>
  /\ generated_examples' = Append(generated_examples,
       [func |-> rft.func, item |-> pos.item, language |-> Language, persona |-> Persona])
  /\ rft' = [rft EXCEPT !.i = @ + 1]
  /\ pc' = "rft"
  /\ UNCHANGED <<stacks_of_device_names, cfg, pos, frame, missing_responses, printed, error,
                 call>>

\* Caught without the except clause: the exception leaves generate_example_file
CaughtNowhere(message) ==
  /\ pc' = "crashed"
  /\ error' = "NoResponseAvailableException"
  /\ frame' = IdleFrame
  /\ UNCHANGED <<stacks_of_device_names, cfg, pos, rft, example, generated_examples,
                 missing_responses, printed, call>>

\* Caught inside run_factor_times: the loop over range(factor) goes on
CaughtInsideLoop(message) ==
  /\ missing_responses' = missing_responses \cup {message}
  /\ rft' = [rft EXCEPT !.status = "raised", !.i = @ + 1]
  /\ pc' = "rft"
  /\ frame' = IdleFrame
  /\ example' = <<>>
  /\ UNCHANGED <<stacks_of_device_names, cfg, pos, generated_examples, printed, error, call>>

\* except NoResponseAvailableException as ex: missing_responses.add(str(ex));
\* the for loop goes on with its next item
Caught(message) ==
  /\ missing_responses' = missing_responses \cup {message}
  /\ rft' = [rft EXCEPT !.status = "raised"]
  /\ pc' = "loop"
  /\ pos' = NextPos
  /\ frame' = IdleFrame
  /\ example' = <<>>
  /\ UNCHANGED <<stacks_of_device_names, cfg, generated_examples, printed, error, call>>

StaticRows(action) ==
  possible_results(Str(action.service_name), Language, Persona, <<>>, FALSE)

\* StaticExamples with the response left as the table has it
StaticExamplesRaw(action, device_lines, device_types) ==
  LET device_type == Str(Split(action.service_name, ".")[1])
      target_device == StaticTarget(action)
      friendly_name == FriendlyName(Split(target_device, ".")[2])
      rows == StaticRows(action)
  IN { [states |-> InsertAt(device_lines, index,
                            format_device_line(target_device, friendly_name, state)),
        available_services |-> services,
        question |-> Lower(action.english_phrase),
        answers |-> << Lower(rows[r].response) >>,
        service_calls |-> << [service |-> Str(action.service_name),
                              target_device |-> target_device] >>] :
       index \in 0..Len(device_lines),
       state \in get_random_state(device_type, ExposedAttributes),
       services \in AvailableServices(device_types \cup {device_type}, ExposedAttributes),
       r \in 1..Len(rows) }

\* the Examples generate_static_example can return
StaticExamples(action, device_lines, device_types) ==
  LET device_type == Str(Split(action.service_name, ".")[1])
      target_device == StaticTarget(action)
      friendly_name == FriendlyName(Split(target_device, ".")[2])
      rows == StaticRows(action)
  IN { [states |-> InsertAt(device_lines, index,
                            format_device_line(target_device, friendly_name, state)),
        available_services |-> services,
        question |-> Lower(action.english_phrase),
        answers |-> << Replace(Lower(rows[r].response), "<device_name>", friendly_name) >>,
        service_calls |-> << [service |-> Str(action.service_name),
                              target_device |-> target_device] >>] :
       index \in 0..Len(device_lines),
       state \in get_random_state(device_type, ExposedAttributes),
       services \in AvailableServices(device_types \cup {device_type}, ExposedAttributes),
       r \in 1..Len(rows) }

StaticReturn ==
  /\ RdlReturned
  /\ rft.func = "static"
  /\ \E e \in StaticExamples(pile_of_specific_actions[pos.item], frame.device_lines,
                             frame.device_types) : Appended(e)

StaticRaise ==
  /\ RdlReturned
  /\ rft.func = "static"
  /\ LET action == pile_of_specific_actions[pos.item]
     IN /\ StaticRows(action) = <<>>
        /\ Caught(NoResponseMessage(Str(action.service_name), Language, Persona, <<>>, FALSE))

\* the service names of a template, as sequences of characters
ServiceNames(template) ==
  ZipServiceNames(Split(template.device_type, "|"), Split(template.service, "|"))

\* the rows the lookup of slot i can return
SlotRows(template, i) ==
  possible_results(Str(ServiceNames(template)[i]), Language, Persona,
                   template.english_phrase, Len(TemplateTypes(template)) # 1)

\* the slots whose lookup finds no row
FailingSlots(template) ==
  { i \in 1..Len(TemplateTypes(template)) : SlotRows(template, i) = <<>> }

RECURSIVE SlotAnswersFirstDevice(_, _, _)
\* SlotAnswers with the description of the first chosen device in every answer
SlotAnswersFirstDevice(template, chosen, i) ==
  IF i > Len(TemplateTypes(template)) THEN { <<>> }
  ELSE { << Replace(row.response, "<device_name>", chosen[1].description) >> \o rest :
           row \in Range(SlotRows(template, i)),
           rest \in SlotAnswersFirstDevice(template, chosen, i + 1) }

RECURSIVE SlotAnswers(_, _, _)
\* the lists of answers the loop over the slots can collect, from slot i on
SlotAnswers(template, chosen, i) ==
  IF i > Len(TemplateTypes(template)) THEN { <<>> }
  ELSE { << Replace(row.response, "<device_name>", chosen[i].description) >> \o rest :
           row \in Range(SlotRows(template, i)),
           rest \in SlotAnswers(template, chosen, i + 1) }

\* question and answer before the substitution passes
TemplatedTexts(template, chosen) ==
  IF Len(TemplateTypes(template)) = 1
  THEN { [question |-> Replace(template.english_phrase, "<device_name>",
                               chosen[1].description),
          answer |-> Replace(row.response, "<device_name>", chosen[1].description)] :
           row \in Range(SlotRows(template, 1)) }
  ELSE { [question |-> QuestionWithDevices(template.english_phrase, chosen, 1),
          answer |-> JoinTexts(answers, "and")] :
           answers \in SlotAnswers(template, chosen, 1) }

\* the Examples generate_templated_example can return
TemplatedExamples(template, chosen, device_lines, device_types) ==
  LET service_names == ServiceNames(template)
      exposed == IF chosen = <<>> THEN ExposedAttributes
                 ELSE TemplatedExposed(template.english_phrase, ExposedAttributes)
      service_calls == [i \in 1..Min(Len(chosen), Len(service_names)) |->
                          [service |-> Str(service_names[i]),
                           target_device |-> chosen[i].device_name]]
  IN { [states |-> states,
        available_services |-> services,
        question |-> Lower(w.question),
        answers |-> << Lower(w.answer) >>,
        service_calls |-> w.service_calls] :
       states \in InsertTargets(device_lines, chosen, exposed),
       services \in AvailableServices(device_types \cup Range(TemplateTypes(template)),
                                      exposed),
       w \in UNION { SubstitutionPasses([question |-> t.question, answer |-> t.answer,
                                         service_calls |-> service_calls], service_names) :
                     t \in TemplatedTexts(template, chosen) } }

TemplatedReturn ==
  /\ RdlReturned
  /\ rft.func = "templated"
  /\ FailingSlots(pile_of_templated_actions[pos.item]) = {}
  /\ \E e \in TemplatedExamples(pile_of_templated_actions[pos.item], frame.chosen_devices,
                                frame.device_lines, frame.device_types) : Appended(e)

TemplatedRaise ==
  /\ RdlReturned
  /\ rft.func = "templated"
  /\ LET template == pile_of_templated_actions[pos.item]
         failing == FailingSlots(template)
     IN /\ failing # {}
        /\ LET i == CHOOSE k \in failing : \A m \in failing : k <= m
           IN Caught(NoResponseMessage(Str(ServiceNames(template)[i]), Language, Persona,
                                       template.english_phrase,
                                       Len(TemplateTypes(template)) # 1))

\* StatusSubstitutions with the state label given the temp_c and the humidity
\* value where it has their placeholders
StatusSubstitutionsOwnValues(device_type, answer, state_name) ==
  LET Both(t, new_answer, new_state) ==
        [answer |-> Replace(t.answer, new_answer[1], new_answer[2]),
         state_name |-> Replace(t.state_name, new_state[1], new_state[2])]
      t0 == [answer |-> answer, state_name |-> state_name]
      climate ==
        IF device_type = "climate"
        THEN { Both(Both(Both(t0, <<"<temp_f>", ToString(temp_f)>>,
                                  <<"<temp_f>", ToString(temp_f)>>),
                         <<"<temp_c>", ToString(temp_c)>>, <<"<temp_c>", ToString(temp_c)>>),
                    <<"<humidity>", ToString(humidity)>>, <<"<humidity>", ToString(humidity)>>) :
                 temp_f \in get_random_parameter("climate", "temp_f"),
                 temp_c \in get_random_parameter("climate", "temp_c"),
                 humidity \in get_random_parameter("climate", "humidity") }
        ELSE { t0 }
      light ==
        IF device_type = "light"
        THEN UNION { { LET name == closest_color(random_rgb)
                       IN Both(Both(t, <<"<brightness>", ToString(brightness)>>,
                                       <<"<brightness>", ToString(brightness)>>),
                               <<"<color>", name>>,
                               <<"<color>", name \o " " \o StrRgb(name_to_rgb(name))>>) :
                       brightness \in get_random_parameter("light", "brightness"),
                       random_rgb \in get_random_parameter("light", "rgb_color") }
                     : t \in climate }
        ELSE climate
      media ==
        IF device_type = "media_player"
        THEN UNION { { Both(Both(t, <<"<volume>", volume \o "%">>,
                                    <<"<volume>", volume \o "%">>),
                            <<"<media>", random_media>>, <<"<media>", random_media>>) :
                       volume \in get_random_parameter("media_player", "volume"),
                       random_media \in get_random_parameter("media_player", "media") }
                     : t \in light }
        ELSE light
  IN IF device_type = "timer"
     THEN UNION { { Both(Both(t, <<"<duration>", DurationName(duration)>>,
                                 <<"<duration>", duration>>),
                         <<"<remaining>", remaining>>, <<"<remaining>", remaining>>) :
                    duration \in get_random_parameter("timer", "duration"),
                    remaining \in get_random_parameter("timer", "remaining") }
                  : t \in media }
     ELSE media

\* the per-type substitutions of generate_status_request: the pairs of answer
\* and state label they can end with
StatusSubstitutions(device_type, answer, state_name) ==
  LET Both(t, new_answer, new_state) ==
        [answer |-> Replace(t.answer, new_answer[1], new_answer[2]),
         state_name |-> Replace(t.state_name, new_state[1], new_state[2])]
      t0 == [answer |-> answer, state_name |-> state_name]
      climate ==
        IF device_type = "climate"
        THEN { Both(Both(Both(t0, <<"<temp_f>", ToString(temp_f)>>,
                                  <<"<temp_f>", ToString(temp_f)>>),
                         <<"<temp_c>", ToString(temp_c)>>, <<"<temp_c>", ToString(temp_f)>>),
                    <<"<humidity>", ToString(humidity)>>, <<"<humidity>", ToString(temp_f)>>) :
                 temp_f \in get_random_parameter("climate", "temp_f"),
                 temp_c \in get_random_parameter("climate", "temp_c"),
                 humidity \in get_random_parameter("climate", "humidity") }
        ELSE { t0 }
      light ==
        IF device_type = "light"
        THEN UNION { { LET name == closest_color(random_rgb)
                       IN Both(Both(t, <<"<brightness>", ToString(brightness)>>,
                                       <<"<brightness>", ToString(brightness)>>),
                               <<"<color>", name>>,
                               <<"<color>", name \o " " \o StrRgb(name_to_rgb(name))>>) :
                       brightness \in get_random_parameter("light", "brightness"),
                       random_rgb \in get_random_parameter("light", "rgb_color") }
                     : t \in climate }
        ELSE climate
      media ==
        IF device_type = "media_player"
        THEN UNION { { Both(Both(t, <<"<volume>", volume \o "%">>,
                                    <<"<volume>", volume \o "%">>),
                            <<"<media>", random_media>>, <<"<media>", random_media>>) :
                       volume \in get_random_parameter("media_player", "volume"),
                       random_media \in get_random_parameter("media_player", "media") }
                     : t \in light }
        ELSE light
  IN IF device_type = "timer"
     THEN UNION { { Both(Both(t, <<"<duration>", DurationName(duration)>>,
                                 <<"<duration>", duration>>),
                         <<"<remaining>", remaining>>, <<"<remaining>", remaining>>) :
                    duration \in get_random_parameter("timer", "duration"),
                    remaining \in get_random_parameter("timer", "remaining") }
                  : t \in media }
     ELSE media

\* StatusExamples with the per-type values substituted into the question as well
StatusExamplesLikeTemplated(template, chosen_device, device_lines, device_types) ==
  LET device_type == template.device_type
      question == Replace(template.english_phrase, "<device_name>", chosen_device.description)
      answer == Replace(template.assistant_response, "<device_name>",
                        chosen_device.description)
  IN { [states |-> InsertAt(device_lines, index,
                            StatusLine(chosen_device.device_name, t.state_name)),
        available_services |-> services,
        question |-> Lower(q.state_name),
        answers |-> << Lower(t.answer) >>,
        service_calls |-> <<>>] :
       index \in 0..Len(device_lines),
       q \in StatusSubstitutions(device_type, answer, question),
       t \in StatusSubstitutions(device_type, answer, template.state),
       services \in AvailableServices(device_types \cup {device_type}, ExposedAttributes) }

\* the Examples generate_status_request can return
StatusExamples(template, chosen_device, device_lines, device_types) ==
  LET device_type == template.device_type
      question == Replace(template.english_phrase, "<device_name>", chosen_device.description)
      answer == Replace(template.assistant_response, "<device_name>",
                        chosen_device.description)
  IN { [states |-> InsertAt(device_lines, index,
                            StatusLine(chosen_device.device_name, t.state_name)),
        available_services |-> services,
        question |-> Lower(question),
        answers |-> << Lower(t.answer) >>,
        service_calls |-> <<>>] :
       index \in 0..Len(device_lines),
       t \in StatusSubstitutions(device_type, answer, template.state),
       services \in AvailableServices(device_types \cup {device_type}, ExposedAttributes) }

StatusReturn ==
  /\ RdlReturned
  /\ rft.func = "status"
  /\ \E e \in StatusExamples(pile_of_status_requests[pos.item], frame.chosen_devices[1],
                             frame.device_lines, frame.device_types) : Appended(e)

Next ==
  \/ StartItem
  \/ InvokeStatic
  \/ InvokeTemplated
  \/ InvokeStatus
  \/ ChooseIndexError
  \/ RdlIterate
  \/ RdlIndexError
  \/ StaticReturn
  \/ StaticRaise
  \/ TemplatedReturn
  \/ TemplatedRaise
  \/ StatusReturn
  \/ RftReturn
  \/ Save

Spec == Init /\ [][Next]_vars

(***************************************************************************)
(* Single calls.  The functions of the module that take no part of the     *)
(* run's state are exercised one call at a time: the arguments are drawn   *)
(* when the state is made, the call variable keeps them and what the call  *)
(* gave back, and the driver stays where it is.                            *)
(***************************************************************************)
Parked ==
  /\ stacks_of_device_names = LoadStacks(DeviceNameCorpora.home)
  /\ cfg = [corpus |-> "home", languages |-> <<"en">>, personas |-> <<"assistant">>,
            static_factor |-> 100, template_factor |-> 100, status_request_factor |-> 100]
  /\ pos = Pos("done", 1, 1, 1)
  /\ pc = "call"
  /\ rft = IdleRft
  /\ frame = IdleFrame
  /\ example = <<>>
  /\ generated_examples = <<>>
  /\ missing_responses = {}
  /\ printed = <<>>
  /\ error = ""

Called(op, args) == [op |-> op, args |-> args, result |-> <<>>, raised |-> FALSE, done |-> FALSE]

Finish(result, raised) ==
  /\ call' = [call EXCEPT !.result = result, !.raised = raised, !.done = TRUE]
  /\ UNCHANGED <<stacks_of_device_names, cfg, pos, pc, rft, frame, example, generated_examples,
                 missing_responses, printed, error>>

\* the question templates of at most MaxQuestion tokens
QuestionTokens ==
  {"set", "<device_name>", "<device_name1>", "<brightness>", "<temp_f>", "<humidity>"}

QuestionTemplates == UNION { [1..n -> QuestionTokens] : n \in 0..MaxQuestion }

ResponseQueries ==
  [service : {"light.turn_on", "climate.set_temperature", "switch.turn_off", "fan.turn_on"},
   language : {"en", "de"},
   persona : {"assistant", "pirate"},
   question_template : QuestionTemplates,
   short : BOOLEAN]

InitResponse ==
  /\ Parked
  /\ call \in { Called("get_random_response", query) : query \in ResponseQueries }

\* return possible_results.sample()["response"].values[0]
get_random_response_returns ==
  /\ call.op = "get_random_response" /\ ~call.done
  /\ \E row \in Range(possible_results(call.args.service, call.args.language,
                                       call.args.persona, call.args.question_template,
                                       call.args.short)) :
       Finish(<<row.response>>, FALSE)

\* if len(possible_results) == 0: raise NoResponseAvailableException(...)
get_random_response_raises ==
  /\ call.op = "get_random_response" /\ ~call.done
  /\ possible_results(call.args.service, call.args.language, call.args.persona,
                      call.args.question_template, call.args.short) = <<>>
  /\ Finish(<<NoResponseMessage(call.args.service, call.args.language, call.args.persona,
                                call.args.question_template, call.args.short)>>, TRUE)

NextResponse ==
  \/ get_random_response_returns
  \/ get_random_response_raises

SpecResponse == InitResponse /\ [][NextResponse]_vars

\* the lists of exposed attributes a caller can pass: the sublists of
\* ExposedAttributes with at most MaxExposed names
ExposedLists ==
  { SelectSeq(ExposedAttributes, LAMBDA a : a \in chosen) :
      chosen \in { S \in SUBSET Range(ExposedAttributes) : Cardinality(S) <= MaxExposed } }

InitServices ==
  /\ Parked
  /\ call \in { Called(op, [device_type |-> key, extra_exposed_attributes |-> exposed]) :
                  op \in {"get_all_services", "get_all_services in one process"},
                  key \in Range(DeviceKeys), exposed \in ExposedLists }

\* the same call in two interpreter processes: each has its own string hash,
\* and sorted(available_services) of the formatter keeps the multiset of the list
get_all_services_twice ==
  /\ call.op = "get_all_services" /\ ~call.done
  /\ \E first, second \in get_all_services(call.args.device_type,
                                          call.args.extra_exposed_attributes) :
       Finish(<<BagOf(first), BagOf(second)>>, FALSE)

\* one call of get_all_services: the entries of the list it returns
get_all_services_returns ==
  /\ call.op = "get_all_services in one process" /\ ~call.done
  /\ \E entries \in ServicesFrom(call.args.device_type,
                                  call.args.extra_exposed_attributes, 1) :
       Finish(entries, FALSE)

NextServices == get_all_services_twice \/ get_all_services_returns

SpecServices == InitServices /\ [][NextServices]_vars

InitState ==
  /\ Parked
  /\ call \in { Called("get_random_state",
                       [device_type |-> key, extra_exposed_attributes |-> exposed]) :
                  key \in Range(DeviceKeys), exposed \in ExposedLists }

\* SUPPORTED_DEVICES[device_type].get_random_state(extra_exposed_attributes=...)
get_random_state_returns ==
  /\ call.op = "get_random_state" /\ ~call.done
  /\ \E state \in get_random_state(call.args.device_type, call.args.extra_exposed_attributes) :
       Finish(<<state>>, FALSE)

NextState == get_random_state_returns

SpecState == InitState /\ [][NextState]_vars

\* the placeholders and the word of the phrases of a single templated call
TemplateTokens == QuestionTokens \cup {"<device_name2>", "<temp_c>", "<color>"}

TemplatePhrases == UNION { [1..n -> TemplateTokens] : n \in 0..MaxQuestion }

\* the device_type and service columns of the rows of a single templated call
TemplateSlots ==
  { [device_type |-> <<"l", "i", "g", "h", "t">>, service |-> <<"t", "u", "r", "n", "_", "o", "n">>],
    [device_type |-> <<"c", "l", "i", "m", "a", "t", "e">>, service |-> <<"s", "e", "t", "_", "t", "e", "m", "p", "e", "r", "a", "t", "u", "r", "e">>],
    [device_type |-> <<"s", "w", "i", "t", "c", "h">>, service |-> <<"t", "u", "r", "n", "_", "o", "f", "f">>],
    [device_type |-> <<"l", "i", "g", "h", "t", "|", "c", "l", "i", "m", "a", "t", "e">>, service |-> <<"t", "u", "r", "n", "_", "o", "n", "|", "s", "e", "t", "_", "t", "e", "m", "p", "e", "r", "a", "t", "u", "r", "e">>],
    [device_type |-> <<"l", "i", "g", "h", "t", "|", "l", "i", "g", "h", "t">>, service |-> <<"t", "u", "r", "n", "_", "o", "n", "|", "t", "u", "r", "n", "_", "o", "n">>] }

TemplateRows ==
  { [device_type |-> slots.device_type, service |-> slots.service, multiplier |-> "1",
     english_phrase |-> phrase] : slots \in TemplateSlots, phrase \in TemplatePhrases }

InitTemplated ==
  /\ Parked
  /\ call \in { Called("generate_templated_example", [template |-> template]) :
                  template \in TemplateRows }

\* a value random_device_list can return for these avoided devices: lines for
\* the first two devices that the sampling loop can add
AmbientSample(stacks, chosen) ==
  LET avoid_device_names == [i \in 1..Len(chosen) |-> chosen[i].device_name]
      choices == SelectSeq(PossibleChoices(stacks, avoid_device_names),
                   LAMBDA c : ~(AvoidClimate(avoid_device_names)
                                 /\ TypeOf(c.device_name) = "climate"))
  IN [device_lines |->
        [i \in 1..2 |->
           format_device_line(choices[i].device_name, choices[i].description,
             CHOOSE state \in get_random_state(TypeOf(choices[i].device_name),
                                               ExposedAttributes) : TRUE)],
      device_types |-> { TypeOf(choices[i].device_name) : i \in 1..2 }]

\* generate_templated_example(template, "en", "assistant") returns an Example
generate_templated_example_returns ==
  /\ call.op = "generate_templated_example" /\ ~call.done
  /\ FailingSlots(call.args.template) = {}
  /\ \E result \in ChooseDevices(stacks_of_device_names,
                                  TemplateTypes(call.args.template)) :
       /\ stacks_of_device_names' = result[1]
       /\ \E e \in TemplatedExamples(call.args.template, result[2],
                                     AmbientSample(result[1], result[2]).device_lines,
                                     AmbientSample(result[1], result[2]).device_types) :
            call' = [call EXCEPT !.result = <<e>>, !.done = TRUE]
  /\ UNCHANGED <<cfg, pos, pc, rft, frame, example, generated_examples, missing_responses,
                 printed, error>>

\* a lookup of generate_templated_example raises NoResponseAvailableException
generate_templated_example_raises ==
  /\ call.op = "generate_templated_example" /\ ~call.done
  /\ FailingSlots(call.args.template) # {}
  /\ \E result \in ChooseDevices(stacks_of_device_names,
                                  TemplateTypes(call.args.template)) :
       stacks_of_device_names' = result[1]
  /\ call' = [call EXCEPT !.result = <<"NoResponseAvailableException">>, !.raised = TRUE,
                          !.done = TRUE]
  /\ UNCHANGED <<cfg, pos, pc, rft, frame, example, generated_examples, missing_responses,
                 printed, error>>

NextTemplated ==
  \/ generate_templated_example_returns
  \/ generate_templated_example_raises

SpecTemplated == InitTemplated /\ [][NextTemplated]_vars

\* the texts of a single signature computation: a response and a question
\* template of at most MaxQuestion tokens each
SignatureTokens == {"<device_name>", "<device_name1>", "<temp_f>", "<humidity>", "is"}

SignatureTexts == UNION { [1..n -> SignatureTokens] : n \in 0..MaxQuestion }

InitSignature ==
  /\ Parked
  /\ call \in { Called("signature", [response |-> response, question_template |-> question]) :
                  response \in SignatureTexts, question \in SignatureTexts }

\* contains_vars of the response as the import computes it, and the value
\* get_random_response compares it with for the question template
signatures_computed ==
  /\ call.op = "signature" /\ ~call.done
  /\ Finish(<<get_included_vars(call.args.response),
              Join(SortedSet(RequiredVars(call.args.question_template)), ",")>>, FALSE)

NextSignature == signatures_computed

SpecSignature == InitSignature /\ [][NextSignature]_vars

\* the exception DeviceType.get_random_parameter raises for param_name:
\* subscripting a None table is a TypeError, a missing key is a KeyError
ParameterError(key, param_name) ==
  IF ~SUPPORTED_DEVICES[key].has_generators THEN "TypeError"
  ELSE IF param_name \notin SUPPORTED_DEVICES[key].generators THEN "KeyError"
  ELSE ""

\* the except clause around one item of generate_example_file: the static and
\* templated loops catch NoResponseAvailableException, the status loop has no
\* try statement
Handled(func, exception) ==
  func \in {"static", "templated"} /\ exception = "NoResponseAvailableException"

ParameterNames ==
  {"brightness", "rgb_color", "temp_f", "temperature", "duration", "remaining", "item", "todo"}

\* one item of the driver whose assembler calls get_random_parameter
InitItem ==
  /\ Parked
  /\ call \in { Called("item", [func |-> func, device_type |-> key, param_name |-> param_name]) :
                  func \in {"static", "templated", "status"},
                  key \in Range(DeviceKeys),
                  param_name \in ParameterNames }

\* the item ran to its end: the value was drawn and the example appended
item_appended ==
  /\ call.op = "item" /\ ~call.done
  /\ ParameterError(call.args.device_type, call.args.param_name) = ""
  /\ Finish([appended |-> TRUE, skipped |-> FALSE, error |-> ""], FALSE)

\* get_random_parameter raised: the handler of the loop decides
item_raised ==
  /\ call.op = "item" /\ ~call.done
  /\ LET exception == ParameterError(call.args.device_type, call.args.param_name)
     IN /\ exception # ""
        /\ IF Handled(call.args.func, exception)
             THEN Finish([appended |-> FALSE, skipped |-> TRUE, error |-> ""], FALSE)
             ELSE Finish([appended |-> FALSE, skipped |-> FALSE, error |-> exception], TRUE)

NextItem == item_appended \/ item_raised

SpecItem == InitItem /\ [][NextItem]_vars

\* the lists of at most two avoided names, taken from the rows of a corpus
AvoidLists(corpus) ==
  LET names == { DeviceNameCorpora[corpus][i].device_name :
                   i \in 1..Len(DeviceNameCorpora[corpus]) }
  IN { <<a>> : a \in names } \cup { <<a, b>> : a \in names, b \in names }

DeviceListCalls ==
  UNION { { Called("random_device_list",
                   [corpus |-> corpus, max_devices |-> max_devices,
                    avoid_device_names |-> avoid_device_names]) :
              max_devices \in 2..MaxListed, avoid_device_names \in AvoidLists(corpus) } :
          corpus \in {"climates", "pair", "single"} }

InitDeviceList ==
  /\ call \in DeviceListCalls
  /\ stacks_of_device_names = LoadStacks(DeviceNameCorpora[call.args.corpus])
  /\ cfg = [corpus |-> call.args.corpus, languages |-> <<"en">>, personas |-> <<"assistant">>,
            static_factor |-> 100, template_factor |-> 100, status_request_factor |-> 100]
  /\ pos = Pos("done", 1, 1, 1)
  /\ pc = "call"
  /\ rft = IdleRft
  /\ frame = IdleFrame
  /\ example = <<>>
  /\ generated_examples = <<>>
  /\ missing_responses = {}
  /\ printed = <<>>
  /\ error = ""

\* random_device_list(max_devices, avoid_device_names) up to its while loop
random_device_list_enters ==
  /\ call.op = "random_device_list" /\ ~call.done
  /\ pc = "call"
  /\ EnterDeviceList(stacks_of_device_names, <<>>, call.args.max_devices,
                     call.args.avoid_device_names)
  /\ pc' = "rdl"
  /\ UNCHANGED <<stacks_of_device_names, cfg, pos, rft, example, generated_examples,
                 missing_responses, printed, error, call>>

\* return device_lines, list(device_types), list(extra_exposed_attributes)
random_device_list_returns ==
  /\ call.op = "random_device_list" /\ ~call.done
  /\ RdlReturned
  /\ Finish([device_lines |-> frame.device_lines, device_types |-> frame.device_types,
             extra_exposed_attributes |-> ExposedAttributes], FALSE)

NextDeviceList ==
  \/ random_device_list_enters
  \/ RdlIterate
  \/ RdlIndexError
  \/ random_device_list_returns

SpecDeviceList == InitDeviceList /\ [][NextDeviceList]_vars

\* the status requests of a single call of generate_status_request: a phrase
\* of at most MaxQuestion tokens for a device type of the home corpus
StatusTokens == {"How", "is", "<device_name>", "<brightness>", "<temp_f>"}

StatusPhrases == UNION { [1..n -> StatusTokens] : n \in 0..MaxQuestion }

StatusRows ==
  { [device_type |-> device_type, state |-> <<"on", "<brightness>", "<temp_f>">>,
     english_phrase |-> english_phrase,
     assistant_response |-> <<"<device_name>", "is", "at", "<brightness>", "<temp_f>">>] :
    device_type \in {"light", "climate", "switch", "lock"}, english_phrase \in StatusPhrases }

InitStatus ==
  /\ Parked
  /\ call \in { Called("generate_status_request", [template |-> template]) :
                  template \in StatusRows }

\* generate_status_request(template, "en", "assistant") returns an Example
generate_status_request_returns ==
  /\ call.op = "generate_status_request" /\ ~call.done
  /\ \E chosen_device \in
          random_choice(stacks_of_device_names[call.args.template.device_type]) :
       \E e \in StatusExamples(call.args.template, chosen_device,
                               AmbientSample(stacks_of_device_names,
                                             <<chosen_device>>).device_lines,
                               AmbientSample(stacks_of_device_names,
                                             <<chosen_device>>).device_types) :
         Finish(<<e>>, FALSE)

NextStatus == generate_status_request_returns

SpecStatus == InitStatus /\ [][NextStatus]_vars

\* the multiplier fields a row of pile_of_templated_actions.csv can have
MultiplierTexts == DOMAIN IntLiterals \cup {"x", "1.5", ""}

CsvRows ==
  { [device_type |-> <<"l", "i", "g", "h", "t">>, service |-> <<"t", "u", "r", "n", "_", "o", "n">>, multiplier |-> multiplier,
     english_phrase |-> english_phrase] :
    multiplier \in MultiplierTexts,
    english_phrase \in { <<"light", "<device_name>">>, <<"dim", "<device_name>">> } }

\* the files of at most MaxRows rows
CsvFiles == UNION { [1..n -> CsvRows] : n \in 0..MaxRows }

InitLoad ==
  /\ Parked
  /\ call \in { Called("load pile_of_templated_actions", [rows |-> rows]) : rows \in CsvFiles }

\* the import-time loop ends: pile_of_templated_actions is the expanded list
load_returns ==
  /\ call.op = "load pile_of_templated_actions" /\ ~call.done
  /\ ~BadMultiplier(call.args.rows)
  /\ Finish(ExpandTemplated(call.args.rows), FALSE)

\* raise Exception(f"line has a bad multiplier: {action}")
load_raises ==
  /\ call.op = "load pile_of_templated_actions" /\ ~call.done
  /\ BadMultiplier(call.args.rows)
  /\ Finish(<<>>, TRUE)

NextLoad == load_returns \/ load_raises

SpecLoad == InitLoad /\ [][NextLoad]_vars


(***************************************************************************)
(* src/dataset/translate.py.  A Python value is a record of its type and   *)
(* its value; the value of a str is its sequence of characters, so that    *)
(* re.findall and str.replace work on the characters tags and markers are  *)
(* made of.                                                                *)
(***************************************************************************)
PyStr(chars) == [type |-> "str", value |-> chars]

PyInt(n) == [type |-> "int", value |-> n]

PyNone == [type |-> "NoneType", value |-> <<>>]

\* text.strip() == ""
IsBlank(chars) == \A i \in 1..Len(chars) : chars[i] = " "

\* the least member of a set of positions, 0 when it is empty
FirstOf(positions) ==
  IF positions = {} THEN 0 ELSE CHOOSE p \in positions : \A q \in positions : p <= q

\* the first position of the character c in chars at or after from, 0 when there is none
IndexFrom(chars, c, from) == FirstOf({ p \in from..Len(chars) : chars[p] = c })

RECURSIVE FindallFrom(_, _)
\* re.findall(r'<([^>]+)>', chars) from position p on: a match starts at a
\* '<' that is followed by at least one character other than '>' and ends
\* at the first '>' after it; the search goes on behind the match
FindallFrom(chars, p) ==
  LET q == IndexFrom(chars, "<", p)
      r == IF q = 0 THEN 0 ELSE IndexFrom(chars, ">", q + 1)
  IN IF q = 0 \/ r = 0 THEN <<>>
     ELSE IF r = q + 1 THEN FindallFrom(chars, q + 1)
     ELSE <<SubSeq(chars, q + 1, r - 1)>> \o FindallFrom(chars, r + 1)

find_placeholders(text) ==
  IF text.type # "str" THEN <<>> ELSE FindallFrom(text.value, 1)

OccursAt(chars, old, p) ==
  p + Len(old) - 1 <= Len(chars) /\ SubSeq(chars, p, p + Len(old) - 1) = old

RECURSIVE ReplaceFrom(_, _, _, _)
\* str.replace(old, new) from position p on: every occurrence of old, the
\* leftmost first, no two overlapping
ReplaceFrom(chars, old, new, p) ==
  LET q == FirstOf({ s \in p..Len(chars) : OccursAt(chars, old, s) })
  IN IF q = 0 THEN SubSeq(chars, p, Len(chars))
     ELSE SubSeq(chars, p, q - 1) \o new \o ReplaceFrom(chars, old, new, q + Len(old))

StrReplace(chars, old, new) == ReplaceFrom(chars, old, new, 1)

Digit == <<"0", "1", "2", "3", "4", "5", "6", "7", "8", "9">>

RECURSIVE Decimal(_)
\* str(n) of a natural number
Decimal(n) ==
  IF n < 10 THEN <<Digit[n + 1]>> ELSE Decimal(n \div 10) \o <<Digit[(n % 10) + 1]>>

\* f"__PLACEHOLDER_{i}__"
Marker(i) == <<"_", "_", "P", "L", "A", "C", "E", "H", "O", "L", "D", "E", "R", "_">> \o Decimal(i) \o <<"_", "_">>

\* f"<{placeholder}>"
PlaceholderTag(placeholder) == <<"<">> \o placeholder \o <<">">>

RECURSIVE ProtectFrom(_, _, _)
\* the loop over enumerate(placeholders) from index i on
ProtectFrom(modified_text, placeholders, i) ==
  IF i >= Len(placeholders) THEN modified_text
  ELSE ProtectFrom(StrReplace(modified_text, PlaceholderTag(placeholders[i + 1]), Marker(i)),
                   placeholders, i + 1)

\* modified_text when the loop has ended
ModifiedText(text) == ProtectFrom(text.value, find_placeholders(text), 0)

RECURSIVE RestoreFrom(_, _, _)
\* the loop over placeholder_map.items(): the markers in the order they were
\* put in, each marker standing for the tag of its index
RestoreFrom(translated, placeholders, i) ==
  IF i >= Len(placeholders) THEN translated
  ELSE RestoreFrom(StrReplace(translated, Marker(i), PlaceholderTag(placeholders[i + 1])),
                   placeholders, i + 1)

RestorePlaceholders(translated, text) == RestoreFrom(translated, find_placeholders(text), 0)

\* what translator.translate(modified_text, src='en', dest='vi').text may be
\* when it is not empty: the text as it was sent, the text behind translated
\* words, or translated words alone
Translations(modified_text) == { modified_text, <<"v", "i", " ">> \o modified_text, <<"v", "i">> }

RECURSIVE Concat(_)
\* the sequences of a list, one behind the other
Concat(seqs) == IF seqs = <<>> THEN <<>> ELSE Head(seqs) \o Concat(Tail(seqs))

ManyTags == <<"<", "a", ">", "<", "b", ">", "<", "c", ">", "<", "d", ">", "<", "e", ">", "<", "f", ">", "<", "g", ">", "<", "h", ">", "<", "i", ">", "<", "j", ">", "<", "k", ">">>

Pieces == { <<"<", "a", ">">>, <<"<", "b", ">">>, <<"o", "n", " ">>, <<" ">>, <<"_", "_", "P", "L", "A", "C", "E", "H", "O", "L", "D", "E", "R", "_", "0">>, <<"P", "L", "A", "C", "E", "H", "O", "L", "D", "E", "R", "_", "0", "_", "_">>, ManyTags }

Texts == { Concat(pieces) : pieces \in UNION { [1..n -> Pieces] : n \in 0..MaxPieces } }

TranslateCalls ==
  { [text |-> text, retry_count |-> retry_count] :
      text \in { PyStr(chars) : chars \in Texts } \cup { PyInt(5) },
      retry_count \in 1..MaxRetry }

Becomes(c) ==
  /\ call' = c
  /\ UNCHANGED <<stacks_of_device_names, cfg, pos, pc, rft, frame, example, generated_examples,
                 missing_responses, printed, error>>

\* attempt is the number of attempts that were made and gave nothing back;
\* outcomes is what every call of translator.translate did, in order
InitTranslate ==
  /\ Parked
  /\ call \in { [attempt |-> 0, outcomes |-> <<>>] @@ Called("translate_with_placeholders", args) :
                  args \in TranslateCalls }

Translatable(text) == text.type = "str" /\ ~IsBlank(text.value)

Attempting ==
  /\ call.op = "translate_with_placeholders" /\ ~call.done
  /\ Translatable(call.args.text)
  /\ call.attempt < call.args.retry_count

\* if not isinstance(text, str): return text; if text.strip() == "": return text
returns_text_as_given ==
  /\ call.op = "translate_with_placeholders" /\ ~call.done
  /\ ~Translatable(call.args.text)
  /\ Becomes([call EXCEPT !.result = call.args.text, !.done = TRUE])

\* the translator gives a text that is not empty: return it with the
\* placeholders restored
attempt_translates ==
  /\ Attempting
  /\ \E translated \in Translations(ModifiedText(call.args.text)) :
       Becomes([call EXCEPT
                  !.outcomes = Append(@, [kind |-> "translated", text |-> translated]),
                  !.result = PyStr(RestorePlaceholders(translated, call.args.text)),
                  !.done = TRUE])

\* the translator gives None or an empty text: continue; behind the last
\* attempt the loop ends and the function ends without a return statement
attempt_empty ==
  /\ Attempting
  /\ Becomes(IF call.attempt + 1 < call.args.retry_count
               THEN [call EXCEPT !.outcomes = Append(@, [kind |-> "empty", text |-> <<>>]),
                                 !.attempt = @ + 1]
               ELSE [call EXCEPT !.outcomes = Append(@, [kind |-> "empty", text |-> <<>>]),
                                 !.attempt = @ + 1,
                                 !.result = PyNone,
                                 !.done = TRUE])

\* the translator raises: on the final attempt return the original text,
\* else go round again
attempt_raises ==
  /\ Attempting
  /\ Becomes(IF call.attempt = call.args.retry_count - 1
               THEN [call EXCEPT !.outcomes = Append(@, [kind |-> "exception", text |-> <<>>]),
                                 !.result = call.args.text,
                                 !.done = TRUE]
               ELSE [call EXCEPT !.outcomes = Append(@, [kind |-> "exception", text |-> <<>>]),
                                 !.attempt = @ + 1])

NextTranslate == returns_text_as_given \/ attempt_translates \/ attempt_empty \/ attempt_raises

SpecTranslate == InitTranslate /\ [][NextTranslate]_vars

(***************************************************************************)
(* process_file.  A DataFrame is its list of column names, its number of   *)
(* rows and, for every column, the list of its cells.  The coroutine       *)
(* stands at one of its awaits: asyncio.gather over the translations of a  *)
(* batch, or asyncio.sleep between two batches.  Every translation of a    *)
(* batch runs in a thread of its own (asyncio.to_thread), so the           *)
(* translations of a batch start and finish in any order.                  *)
(***************************************************************************)
batch_size == 5

\* the cell of a column of the input file in row r
Cell(column, r) ==
  IF column = "assistant_response"
    THEN (IF r = 2 THEN PyStr(<<>>) ELSE PyStr(<<"o", "k", " ", "<", "a", ">", " ">> \o Decimal(r)))
    ELSE PyStr(<<"t", "u", "r", "n", " ", "o", "n", " ", "<", "a", ">", " ">> \o Decimal(r))

DataFrame(columns, len) ==
  [columns |-> columns, len |-> len,
   data |-> [column \in Range(columns) |-> [r \in 1..len |-> Cell(column, r)]]]

\* df[name] = cells, for a name that is not a column yet
WithColumn(df, name, cells) ==
  [df EXCEPT !.columns = Append(@, name), !.data = (name :> cells) @@ @]

ProcessFileCalls ==
  { [exists |-> TRUE, df |-> DataFrame(<<"english_phrase">>, len),
     columns_to_translate |-> <<"english_phrase">>] : len \in 0..MaxFileRows }
  \cup
  { [exists |-> TRUE, df |-> DataFrame(<<"english_phrase", "assistant_response">>, len),
     columns_to_translate |-> <<"english_phrase", "assistant_response">>] : len \in 0..MaxRows }
  \cup
  { [exists |-> TRUE, df |-> DataFrame(<<"english_phrase">>, 1),
     columns_to_translate |-> <<"english_name", "english_phrase">>],
    [exists |-> FALSE, df |-> DataFrame(<<"english_phrase">>, 1),
     columns_to_translate |-> <<"english_phrase">>] }

\* what awaiting translate_with_placeholders(text) can give: a translation
\* with the placeholders restored, the text itself, or None
TaskResults(text) ==
  IF ~Translatable(text) THEN { text }
  ELSE { PyStr(RestorePlaceholders(<<"v", "i", " ">> \o ModifiedText(text), text)), text, PyNone }

PyPending == [type |-> "pending", value |-> <<>>]

\* the rows of df[column].iloc[i:i+batch_size]
BatchRows(len, i) == (i + 1)..Min(i + batch_size, len)

\* tasks = [translate_with_placeholders(text) for text in batch], handed to gather
CreateTasks(p, i) ==
  [p EXCEPT !.at = "gather", !.i = i, !.completed = <<>>,
            !.tasks = [r \in 1..p.df.len |-> IF r \in BatchRows(p.df.len, i) THEN "pending" ELSE @[r]]]

RECURSIVE StartColumn(_, _)
\* the loop over columns_to_translate from its c-th column on, as far as the
\* first gather, or to df.to_csv behind the last column
StartColumn(p, c) ==
  IF c > Len(p.args.columns_to_translate)
    THEN [p EXCEPT !.at = "saved", !.c = c, !.done = TRUE, !.result = <<p.df>>]
  ELSE LET column == p.args.columns_to_translate[c]
       IN IF ~Contains(p.df.columns, column) THEN StartColumn(p, c + 1)
          ELSE IF p.df.len = 0
            THEN StartColumn([p EXCEPT !.df = WithColumn(@, column \o "_vi", <<>>),
                                       !.returned = (column :> <<>>) @@ @], c + 1)
          ELSE CreateTasks([p EXCEPT !.c = c, !.translated_column = <<>>,
                                     !.tasks = [r \in 1..p.df.len |-> "none"],
                                     !.returned = (column :> [r \in 1..p.df.len |-> PyPending]) @@ @],
                           0)

InitProcessFile ==
  /\ Parked
  /\ call \in { [at |-> "called", df |-> DataFrame(<<>>, 0), c |-> 0, i |-> 0,
                 translated_column |-> <<>>, tasks |-> <<>>, completed |-> <<>>,
                 returned |-> <<>>, overtaken |-> FALSE]
                @@ Called("process_file", args) : args \in ProcessFileCalls }

Column == call.args.columns_to_translate[call.c]

\* pd.read_csv, then the loop as far as its first await; a file that cannot
\* be read ends in the except branch
process_file_begins ==
  /\ call.op = "process_file" /\ call.at = "called"
  /\ Becomes(IF call.args.exists
               THEN StartColumn([call EXCEPT !.df = call.args.df], 1)
               ELSE [call EXCEPT !.at = "failed", !.done = TRUE])

\* the thread of one translation of the batch begins
translation_starts ==
  /\ call.op = "process_file" /\ call.at = "gather"
  /\ \E r \in 1..call.df.len :
       /\ call.tasks[r] = "pending"
       /\ Becomes([call EXCEPT !.tasks[r] = "running"])

\* one translation of the batch returns
translation_finishes ==
  /\ call.op = "process_file" /\ call.at = "gather"
  /\ \E r \in 1..call.df.len :
       /\ call.tasks[r] = "running"
       /\ \E value \in TaskResults(call.df.data[Column][r]) :
            Becomes([call EXCEPT
                       !.tasks[r] = "done",
                       !.returned[Column][r] = value,
                       !.completed = Append(@, r),
                       !.overtaken = @ \/ \E s \in 1..(r - 1) : call.tasks[s] \in {"pending", "running"}])

\* batch_translations = await asyncio.gather(*tasks): the results in the order of the tasks
BatchTranslationsAsCompleted(p) ==
  [k \in 1..Len(p.completed) |-> p.returned[p.args.columns_to_translate[p.c]][p.completed[k]]]

BatchTranslations(p) ==
  [k \in 1..Len(p.completed) |-> p.returned[p.args.columns_to_translate[p.c]][p.i + k]]

\* gather returns when every translation of the batch has: extend
\* translated_column, then sleep before the next batch, or set the new
\* column and go on with the next column
gather_returns ==
  /\ call.op = "process_file" /\ call.at = "gather"
  /\ \A r \in BatchRows(call.df.len, call.i) : call.tasks[r] = "done"
  /\ LET translated_column == call.translated_column \o BatchTranslations(call)
     IN Becomes(IF call.i + batch_size < call.df.len
                  THEN [call EXCEPT !.translated_column = translated_column, !.at = "sleep"]
                  ELSE StartColumn([call EXCEPT !.translated_column = translated_column,
                                                !.df = WithColumn(@, Column \o "_vi", translated_column)],
                                   call.c + 1))

\* asyncio.sleep(2) returns: the next round of the loop over the batches
sleep_returns ==
  /\ call.op = "process_file" /\ call.at = "sleep"
  /\ Becomes(CreateTasks(call, call.i + batch_size))

NextProcessFile ==
  \/ process_file_begins
  \/ translation_starts
  \/ translation_finishes
  \/ gather_returns
  \/ sleep_returns

SpecProcessFile == InitProcessFile /\ [][NextProcessFile]_vars

(***************************************************************************)
(* Properties.                                                             *)
(***************************************************************************)
\* the first ';'-separated fragment of a state string
BaseLabel(state) == state[1]

\* the state labels a registry entry declares
DeclaredLabels(key) ==
  { SUPPORTED_DEVICES[key].possible_states[i][1] :
      i \in 1..Len(SUPPORTED_DEVICES[key].possible_states) }

\* the devices the sampling loop can still add to device_list
Eligible ==
  { i \in 1..Len(frame.possible_choices) :
      /\ ~Contains(frame.device_list, frame.possible_choices[i].device_name)
      /\ ~(frame.avoid_climate /\ TypeOf(frame.possible_choices[i].device_name) = "climate") }

\* C1: while the ambient builder runs for a static or a templated example, no
\* device it has collected is one of the target devices it was told to avoid.
C1_AmbientNeverHoldsTarget ==
  (pc = "rdl" /\ rft.func \in {"static", "templated"}) =>
    \A i \in 1..Len(frame.device_lines) :
      frame.device_lines[i].device_name \notin Range(frame.avoid_device_names)

\* C2: the sampling loop of random_device_list is never left with fewer
\* devices than num_devices and no eligible device to draw: where the pool is
\* exhausted the loop has ended.
C2_ExhaustedPoolEndsLoop ==
  (pc = "rdl" /\ Eligible = {}) => Len(frame.device_list) >= frame.num_devices

\* the rows of the response table that match a lookup exactly
ExactRows(query) ==
  { row \in Range(pile_of_responses) :
      /\ row.service = query.service
      /\ row.language = query.language
      /\ row.persona = query.persona
      /\ row.short = (IF query.short THEN 1 ELSE 0)
      /\ row.contains_vars = Join(SortedSet(RequiredVars(query.question_template)), ",") }

\* C3: a response get_random_response returns is the text of a row with the
\* requested service, language, persona and short flag whose signature is the
\* question's, so the variables of the row other than device_name are exactly
\* the required ones; the call raises exactly when no row matches exactly.
C3_ExactSignature ==
  (call.op = "get_random_response" /\ call.done) =>
    IF call.raised THEN ExactRows(call.args) = {}
    ELSE \A row \in Range(pile_of_responses) :
           row.response = call.result[1] =>
             /\ row \in ExactRows(call.args)
             /\ Range(findall(row.response)) \ {"device_name"}
                  = RequiredVars(call.args.question_template)

\* C3 case: the lookup requires temp_f alone, the table has a row of that
\* service, language, persona and length for temp_f and humidity, and it raised
C3_SupersetRowRefused ==
  /\ call.op = "get_random_response" /\ call.done /\ call.raised
  /\ RequiredVars(call.args.question_template) = {"temp_f"}
  /\ \E row \in Range(pile_of_responses) :
       /\ row.service = call.args.service
       /\ row.language = call.args.language
       /\ row.persona = call.args.persona
       /\ row.short = (IF call.args.short THEN 1 ELSE 0)
       /\ Range(findall(row.response)) \ {"device_name"} = {"temp_f", "humidity"}

\* the rounds of the static and templated loops that left no example
ItemsWithoutExample ==
  { t \in [func : {"static", "templated"},
           item : 1..Len(pile_of_specific_actions) + Len(pile_of_templated_actions),
           language : Range(cfg.languages), persona : Range(cfg.personas)] :
      /\ t.item <= (IF t.func = "static" THEN Len(pile_of_specific_actions)
                    ELSE Len(pile_of_templated_actions))
      /\ t \notin Range(generated_examples) }

\* C4: NoResponseAvailableException never ends the run; the step in which an
\* assembler raises it adds its message to missing_responses, moves the driver
\* to the next item, and prints and appends nothing; the messages are printed
\* once, by the step that ends the loops.
C4_CaughtPerItem ==
  /\ [](error # "NoResponseAvailableException")
  /\ [](IF pc = "done" THEN printed = <<missing_responses>> ELSE printed = <<>>)
  /\ [][(pc = "rdl" /\ pc' # "rdl" /\ example' = <<>> /\ error' # "IndexError") =>
          /\ pc' = "loop"
          /\ pos' = NextPos
          /\ \E message \in missing_responses' :
               missing_responses' = missing_responses \cup {message}
          /\ generated_examples' = generated_examples
          /\ printed' = printed]_vars

\* C4 case: a run that ended after items raised, some of them with the same
\* message, and that still produced examples
C4_RunEndsAfterRaises ==
  /\ pc = "done"
  /\ cfg.static_factor = 100 /\ cfg.template_factor = 100
  /\ missing_responses # {}
  /\ Cardinality(ItemsWithoutExample) > Cardinality(missing_responses)
  /\ generated_examples # <<>>
  /\ printed = <<missing_responses>>

\* C5: the same call of get_all_services gives the same list in every process,
\* so two runs on the same seed, corpora and factors write the same
\* available_services strings.
C5_SameServicesInEveryProcess ==
  (call.op = "get_all_services" /\ call.done) => call.result[1] = call.result[2]

\* how many examples the run made of one item for one language and persona
Assembled(func, item, language, persona) ==
  Cardinality({ i \in 1..Len(generated_examples) :
                  generated_examples[i] = [func |-> func, item |-> item,
                                           language |-> language, persona |-> persona] })

WholeFactors ==
  /\ cfg.static_factor >= 100 /\ cfg.static_factor % 100 = 0
  /\ cfg.template_factor >= 100 /\ cfg.template_factor % 100 = 0
  /\ cfg.status_request_factor >= 100 /\ cfg.status_request_factor % 100 = 0

CorpusSize(func) ==
  CASE func = "static" -> Len(pile_of_specific_actions)
    [] func = "templated" -> Len(pile_of_templated_actions)
    [] func = "status" -> Len(pile_of_status_requests)

FactorOf(func) ==
  CASE func = "static" -> cfg.static_factor
    [] func = "templated" -> cfg.template_factor
    [] func = "status" -> cfg.status_request_factor

CorpusPass(func, language, persona) ==
  Concat([item \in 1..CorpusSize(func) |->
            Repeat([func |-> func, item |-> item, language |-> language,
                    persona |-> persona], FactorOf(func) \div 100)])

\* language, then persona, then the static items, then the templated items;
\* the status requests once, after those loops, for "en" and "assistant"
Traversal ==
  Concat([l \in 1..Len(cfg.languages) |->
            Concat([p \in 1..Len(cfg.personas) |->
                      CorpusPass("static", cfg.languages[l], cfg.personas[p])
                        \o CorpusPass("templated", cfg.languages[l], cfg.personas[p])])])
    \o CorpusPass("status", "en", "assistant")

C7_RunFactorTimes ==
  rft.status = "returned" =>
    LET appended == Len(generated_examples) - rft.first
    IN IF rft.factor >= 100
       THEN rft.factor % 100 = 0 =>
              (rft.calls = rft.factor \div 100 /\ appended = rft.factor \div 100)
       ELSE rft.calls \in {0, 1} /\ appended = rft.calls

\* C7 case: run_factor_times has returned from the largest whole factor
C7_ReturnedFromLargestFactor ==
  /\ rft.status = "returned"
  /\ rft.factor = MaxFactor * 100
  /\ rft.calls = MaxFactor
  /\ Len(generated_examples) - rft.first = MaxFactor

\* C8: the base label of a state get_random_state returns is a state label
\* the possible_states of the device type declare.
C8_BaseLabelDeclared ==
  (call.op = "get_random_state" /\ call.done) =>
    BaseLabel(call.result[1]) \in DeclaredLabels(call.args.device_type)

\* C9: the device-name stacks stay as the import left them.
C9_StacksReadOnly ==
  stacks_of_device_names = LoadStacks(DeviceNameCorpora[cfg.corpus])

\* C10: the example generate_static_example returns for the row (p, T.s, d)
\* has the one service call {service: T.s, target_device: T.d}, the question p
\* in lower case, one answer without <device_name>, and one state line more
\* than the ambient context, a line of T.d among them.
C10_StaticExample ==
  (example # <<>> /\ rft.func = "static") =>
    LET action == pile_of_specific_actions[pos.item]
        e == example[1]
        target == Split(action.service_name, ".")[1] \o <<".">> \o action.device_name
    IN /\ Len(e.service_calls) = 1
       /\ DOMAIN e.service_calls[1] = {"service", "target_device"}
       /\ e.service_calls[1].service = Str(action.service_name)
       /\ e.service_calls[1].target_device = target
       /\ e.question = Lower(action.english_phrase)
       /\ Len(e.answers) = 1
       /\ ~HasToken(e.answers[1], "<device_name>")
       /\ Len(e.states) = Len(frame.device_lines) + 1
       /\ \E i \in 1..Len(e.states) : e.states[i].device_name = target

\* C10 case: a static example over an ambient context of two devices, from a
\* phrase that is not in lower case
C10_StaticExampleReturned ==
  /\ example # <<>> /\ rft.func = "static"
  /\ Len(frame.device_lines) = 2
  /\ pile_of_specific_actions[pos.item].english_phrase # example[1].question

\* the template of the templated example just returned
ReturnedTemplate == pile_of_templated_actions[pos.item]

\* C11: a templated example over n device slots has n service calls in slot
\* order, the i-th with service type_i.service_i and the device chosen for
\* slot i as target_device; the example of a (light, climate) template whose
\* phrase has <device_name1>, <device_name2> and <temp_f> has two calls, the
\* second with a temperature in 60..80.
C11_OneCallPerSlot ==
  (example # <<>> /\ rft.func = "templated") =>
    LET types == Split(ReturnedTemplate.device_type, "|")
        services == Split(ReturnedTemplate.service, "|")
        calls == example[1].service_calls
    IN /\ Len(calls) = Len(types)
       /\ \A i \in 1..Len(types) :
            /\ calls[i].service = Str(types[i] \o <<".">> \o services[i])
            /\ calls[i].target_device = frame.chosen_devices[i].device_name
            /\ TypeOf(calls[i].target_device) = Str(types[i])
       /\ ( /\ types = <<<<"l", "i", "g", "h", "t">>, <<"c", "l", "i", "m", "a", "t", "e">>>>
            /\ HasToken(ReturnedTemplate.english_phrase, "<device_name1>")
            /\ HasToken(ReturnedTemplate.english_phrase, "<device_name2>")
            /\ HasToken(ReturnedTemplate.english_phrase, "<temp_f>") )
          => /\ Len(calls) = 2
             /\ "temperature" \in DOMAIN calls[2]
             /\ calls[2].temperature \in 60..80

\* C11 case: the example of the two-slot template with its temperature
C11_TwoSlotExample ==
  /\ example # <<>> /\ rft.func = "templated"
  /\ Len(frame.chosen_devices) = 2
  /\ Len(example[1].service_calls) = 2
  /\ HasToken(ReturnedTemplate.english_phrase, "<temp_f>")
  /\ example[1].service_calls[2].temperature \in 60..80

\* the placeholders left in a text
Leftover(text) == { text[i] : i \in { j \in 1..Len(text) : IsPlaceholder(text[j]) } }

\* the Example a single call of generate_templated_example returned
Returned ==
  call.op = "generate_templated_example" /\ call.done /\ ~call.raised

\* C12 as stated: no example generate_templated_example returns has a
\* placeholder left in its question or in its answer.
C12_NoPlaceholderLeft ==
  Returned => /\ Leftover(call.result[1].question) = {}
              /\ \A i \in 1..Len(call.result[1].answers) :
                   Leftover(call.result[1].answers[i]) = {}

\* the placeholders of a phrase that the passes of the template's services
\* replace: <device_name> in a template of one slot, <device_name1> to
\* <device_nameN> in a template of N slots, and those of the climate, light,
\* timer and todo groups where a service name contains the word of the group
Replaced(template) ==
  LET n == Len(TemplateTypes(template))
      names == ServiceNames(template)
      group(word, tokens) == IF AnyService(names, word) THEN tokens ELSE {}
  IN (IF n = 1 THEN {"<device_name>"} ELSE { Placeholder("device_name" \o ToString(i)) : i \in 1..n })
       \cup group(<<"c", "l", "i", "m", "a", "t", "e">>, {"<hvac_mode>", "<fan_mode>", "<temp_f>", "<temp_c>", "<humidity>"})
       \cup group(<<"l", "i", "g", "h", "t">>, {"<brightness>", "<color>"})
       \cup group(<<"t", "i", "m", "e", "r">>, {"<duration>"})
       \cup group(<<"t", "o", "d", "o">>, {"<todo>"})

\* C12 amended: an example generate_templated_example returns has no
\* placeholder left in its question or answer when every placeholder of the
\* phrase is one that the passes of the template replace: the device
\* placeholder of its slot count, and the placeholders of the climate, light,
\* timer and todo groups whose word is in one of its service names.
C12_NoReplacedPlaceholderLeft ==
  (Returned /\ Leftover(call.args.template.english_phrase) \subseteq Replaced(call.args.template))
    => /\ Leftover(call.result[1].question) = {}
       /\ \A i \in 1..Len(call.result[1].answers) :
            Leftover(call.result[1].answers[i]) = {}

\* C12 case: the example of a two-slot template with a device placeholder
\* and a temperature, all replaced
C12_TwoSlotTextsClean ==
  /\ Returned
  /\ Len(TemplateTypes(call.args.template)) = 2
  /\ Leftover(call.args.template.english_phrase) = {"<device_name2>", "<temp_f>"}
  /\ Leftover(call.args.template.english_phrase) \subseteq Replaced(call.args.template)
  /\ Leftover(call.result[1].question) = {}
  /\ Leftover(call.result[1].answers[1]) = {}

\* the placeholder names of a text other than device_name
NamesOtherThanDevice(text) == Range(findall(text)) \ {"device_name"}

\* C13: a response text and a question template with the same set of
\* placeholder names other than device_name have the same signature.
C13_SameNamesSameSignature ==
  (call.op = "signature" /\ call.done
     /\ NamesOtherThanDevice(call.args.response)
          = NamesOtherThanDevice(call.args.question_template))
    => call.result[1] = call.result[2]

ClimateLines(device_lines) ==
  { i \in 1..Len(device_lines) : TypeOf(device_lines[i].device_name) = "climate" }

\* C15: when a name in avoid_device_names is of type climate, no line of
\* random_device_list belongs to a climate device and "climate" is not among
\* its device types, all through the sampling loop and at the return.
C15_NoClimateWhenAvoided ==
  (pc = "rdl" /\ \E i \in 1..Len(frame.avoid_device_names) :
                   TypeOf(frame.avoid_device_names[i]) = "climate")
    => (ClimateLines(frame.device_lines) = {} /\ "climate" \notin frame.device_types)

\* a list was returned although a climate device unlike the avoided one was
\* among the candidates of the sampling loop
C15_DissimilarClimateSuppressed ==
  /\ call.op = "random_device_list" /\ call.done /\ ~call.raised
  /\ \E i \in 1..Len(frame.avoid_device_names) :
       TypeOf(frame.avoid_device_names[i]) = "climate"
  /\ \E i \in 1..Len(frame.possible_choices) :
       TypeOf(frame.possible_choices[i].device_name) = "climate"
  /\ Len(call.result.device_lines) >= 2

\* C17: random_device_list returns n lines with 2 <= n <= max_devices, the
\* device names of the lines are pairwise distinct, every line is
\* "{device_name} '{friendly_name}' = {state}" for a row of the corpus and a
\* state its type can have, and the returned device types are exactly the
\* types of the devices in the lines.
C17_ReturnedList ==
  (call.op = "random_device_list" /\ call.done /\ ~call.raised) =>
    LET lines == call.result.device_lines
        rows == Range(DeviceNameCorpora[call.args.corpus])
    IN /\ Len(lines) \in 2..call.args.max_devices
       /\ \A i, j \in 1..Len(lines) : i # j => lines[i].device_name # lines[j].device_name
       /\ \A i \in 1..Len(lines) :
            \E row \in rows :
              \E state \in get_random_state(TypeOf(row.device_name), ExposedAttributes) :
                lines[i] = format_device_line(row.device_name, row.description, state)
       /\ call.result.device_types = { TypeOf(lines[i].device_name) : i \in 1..Len(lines) }

\* a list of three lines for devices of two types was returned
C17_ThreeLinesReturned ==
  /\ call.op = "random_device_list" /\ call.done /\ ~call.raised
  /\ call.args.max_devices = 3
  /\ Len(call.result.device_lines) = 3
  /\ Cardinality(call.result.device_types) = 2

\* C16: an example returned by generate_status_request has no service call,
\* and its question is the phrase of the template with <device_name> replaced
\* by the description of a device of the template's type, in lower case; the
\* placeholders the per-type substitutions replace stay as they are.
C16_StatusQuestionAndNoCall ==
  (call.op = "generate_status_request" /\ call.done) =>
    LET e == call.result[1]
        template == call.args.template
    IN /\ e.service_calls = <<>>
       /\ \E chosen_device \in Range(stacks_of_device_names[template.device_type]) :
            e.question = Lower(Replace(template.english_phrase, "<device_name>",
                                       chosen_device.description))

\* a status example for a light whose phrase has a cased word and <brightness>
C16_BrightnessLeftInQuestion ==
  /\ call.op = "generate_status_request" /\ call.done
  /\ call.args.template.device_type = "light"
  /\ call.args.template.english_phrase = <<"How", "<brightness>">>
  /\ call.result[1].question = <<"how", "<brightness>">>
  /\ call.result[1].service_calls = <<>>
  /\ HasToken(call.result[1].answers[1], "0")

\* C18: get_all_services returns one entry per declared service of the device
\* type, in the order of the declarations, and the arguments of the entry for a
\* service are exactly its declared parameters that are exposed, each once.
C18_OneEntryPerService ==
  (call.op = "get_all_services in one process" /\ call.done) =>
    LET declared == SUPPORTED_DEVICES[call.args.device_type].services
        exposed == Range(call.args.extra_exposed_attributes)
        entries == call.result
    IN /\ Len(entries) = Len(declared)
       /\ \A k \in 1..Len(entries) :
            /\ entries[k].service = declared[k][1]
            /\ Range(entries[k].args) = Range(declared[k][2]) \cap exposed
            /\ Len(entries[k].args) = Cardinality(Range(entries[k].args))
            /\ entries[k].text = ServiceString(SUPPORTED_DEVICES[call.args.device_type].name,
                                               declared[k][1], entries[k].args)

\* the services of a light with brightness, humidity and rgb_color exposed:
\* turn_on takes the two it declares, the other services take none
C18_LightWithForeignAttribute ==
  /\ call.op = "get_all_services in one process" /\ call.done
  /\ call.args.device_type = "light"
  /\ Range(call.args.extra_exposed_attributes) = {"rgb_color", "brightness", "humidity"}
  /\ Len(call.result) = 3
  /\ call.result[1].text = "light.turn_on(brightness,rgb_color)"
  /\ call.result[2].text = "light.turn_off()"

\* the fragments a media player state can carry after its base state
TitleFragments == Range(pile_of_media_names)

VolumeFragments == { "vol=" \o v : v \in get_random_parameter("media_player", "volume") }

\* C19: the state of a media player has a title fragment exactly when its base
\* state is playing, paused, buffering or on and media_title is exposed; it has
\* a "vol=" fragment exactly when its base state is not off and volume_level
\* is exposed, after the title if there is one; an off player has no fragment.
C19_MediaPlayerFragments ==
  (call.op = "get_random_state" /\ call.done /\ call.args.device_type = "media_player") =>
    LET state == call.result[1]
        base == state[1]
        exposed == Range(call.args.extra_exposed_attributes)
        title == base \in {"playing", "paused", "buffering", "on"} /\ "media_title" \in exposed
        volume == base # "off" /\ "volume_level" \in exposed
    IN /\ Len(state) = 1 + (IF title THEN 1 ELSE 0) + (IF volume THEN 1 ELSE 0)
       /\ title => state[2] \in TitleFragments
       /\ volume => state[Len(state)] \in VolumeFragments
       /\ ~title => \A i \in 2..Len(state) : state[i] \notin TitleFragments
       /\ ~volume => \A i \in 2..Len(state) : state[i] \notin VolumeFragments
       /\ base = "off" => state = <<"off">>

\* a playing media player with a title and then a volume fragment
C19_TitleThenVolume ==
  /\ call.op = "get_random_state" /\ call.done /\ call.args.device_type = "media_player"
  /\ Len(call.result[1]) = 3
  /\ call.result[1][1] = "playing"
  /\ call.result[1][2] \in TitleFragments
  /\ call.result[1][3] \in VolumeFragments

\* C20: in an example of a template with a climate service whose phrase has
\* <temp_f>, every service call carries under "temperature" the number the
\* question shows where <temp_f> stood, also when the phrase has <temp_c>.
C20_TemperatureShownIsSent ==
  (/\ Returned
   /\ AnyService(ServiceNames(call.args.template), <<"c", "l", "i", "m", "a", "t", "e">>)
   /\ HasToken(call.args.template.english_phrase, "<temp_f>")) =>
    LET e == call.result[1]
        phrase == call.args.template.english_phrase
    IN \A k \in 1..Len(e.service_calls) :
         /\ "temperature" \in DOMAIN e.service_calls[k]
         /\ \A i \in 1..Len(phrase) :
              phrase[i] = "<temp_f>" => e.question[i] = ToString(e.service_calls[k].temperature)

\* the response rows a lookup for slot i of the returned template may use:
\* the slot's service, the language and persona of the pass, and the long
\* form for a single-device template, the short form otherwise
RowsOfSlot(i) ==
  LET n == Len(TemplateTypes(ReturnedTemplate))
  IN { row \in Range(pile_of_responses) :
         /\ row.service = Str(ServiceNames(ReturnedTemplate)[i])
         /\ row.language = Language /\ row.persona = Persona
         /\ row.short = (IF n = 1 THEN 0 ELSE 1) }

\* text is the final form of pre: the same tokens in lower case, except where
\* pre has a placeholder
FinalOf(text, pre) ==
  /\ Len(text) = Len(pre)
  /\ \A j \in 1..Len(pre) : ~IsPlaceholder(pre[j]) => text[j] = Lower(<<pre[j]>>)[1]

\* C21: the answers field of a templated example holds one string; for a
\* single-device template it comes from one long-form response of the service,
\* for a template of two slots from one short-form response per slot, each of
\* its slot's service and with <device_name> replaced by the description of the
\* slot's device, joined by "and" in slot order.
C21_OneAnswerFromSlotResponses ==
  (example # <<>> /\ rft.func = "templated") =>
    LET n == Len(TemplateTypes(ReturnedTemplate))
        chosen == frame.chosen_devices
        Part(row, i) == Replace(row.response, "<device_name>", chosen[i].description)
    IN /\ Len(example[1].answers) = 1
       /\ n \in {1, 2}
       /\ n = 1 => \E row \in RowsOfSlot(1) : FinalOf(example[1].answers[1], Part(row, 1))
       /\ n = 2 => \E first \in RowsOfSlot(1), second \in RowsOfSlot(2) :
                     FinalOf(example[1].answers[1],
                             Part(first, 1) \o <<"and">> \o Part(second, 2))

\* the answer of a two-slot example names the light, then "and", then the thermostat
C21_TwoAnswersJoined ==
  /\ example # <<>> /\ rft.func = "templated"
  /\ Len(frame.chosen_devices) = 2
  /\ HasToken(example[1].answers[1], "and")
  /\ HasToken(example[1].answers[1], "den light")
  /\ HasToken(example[1].answers[1], "hall thermostat")

\* the status request of the status example just returned
ReturnedStatus == pile_of_status_requests[pos.item]

\* the lines of the example that generate_status_request wrote for its target
TargetLines == SelectSeq(example[1].states, LAMBDA line : ~line.quoted)

Shown(values) == { ToString(v) : v \in values }

\* C22: in a climate status example the state label shows one number of
\* 60..80, the temp_f value, wherever the template's state has <temp_f>,
\* <temp_c> or <humidity>, while the answer shows a number of 15..25 for
\* <temp_c> and a number of 10..90 for <humidity>.
C22_StateLabelReusesTempF ==
  (example # <<>> /\ rft.func = "status" /\ ReturnedStatus.device_type = "climate") =>
    LET label == TargetLines[1].state
        answer == example[1].answers[1]
        state_name == ReturnedStatus.state
        response == ReturnedStatus.assistant_response
    IN /\ Len(TargetLines) = 1
       /\ Len(label) = Len(state_name) /\ Len(answer) = Len(response)
       /\ \E temp_f \in Shown(60..80) :
            \A i \in 1..Len(state_name) :
              state_name[i] \in {"<temp_f>", "<temp_c>", "<humidity>"} => label[i] = temp_f
       /\ \A j \in 1..Len(response) :
            /\ response[j] = "<temp_c>" => answer[j] \in Shown(15..25)
            /\ response[j] = "<humidity>" => answer[j] \in Shown(10..90)

\* a climate status example whose label and answer show different numbers
\* for <temp_c> and for <humidity>
C22_LabelAndAnswerDiffer ==
  /\ example # <<>> /\ rft.func = "status" /\ ReturnedStatus.device_type = "climate"
  /\ TargetLines[1].state = <<"cool", "60", "60">>
  /\ example[1].answers[1] = <<"it", "reads", "15", "and", "10">>

\* the multiplier of row i of the loaded file as a number, 0 where int() raises
MultiplierOf(i) ==
  IF call.args.rows[i].multiplier \in DOMAIN IntLiterals
  THEN int(call.args.rows[i].multiplier) ELSE 0

RECURSIVE SumUpTo(_, _)
\* the sum of Count(k) for k in 1..n
SumUpTo(Count(_), n) == IF n = 0 THEN 0 ELSE SumUpTo(Count, n - 1) + Count(n)

Loaded == call.op = "load pile_of_templated_actions" /\ call.done

IntegerMultipliers ==
  \A i \in 1..Len(call.args.rows) : call.args.rows[i].multiplier \in DOMAIN IntLiterals

\* the pile holds row i exactly Count(i) times, consecutively and in the order
\* of the file
ExpandedBy(Count(_)) ==
  /\ Len(call.result) = SumUpTo(Count, Len(call.args.rows))
  /\ \A i \in 1..Len(call.args.rows) :
       \A j \in 1..Count(i) : call.result[SumUpTo(Count, i - 1) + j] = call.args.rows[i]

\* C23 as stated: the loaded pile holds every row exactly multiplier times, so
\* its length is the sum of the multipliers, and the load raises when a
\* multiplier is not an integer.
C23_RowsTimesMultiplier ==
  Loaded => /\ call.raised <=> ~IntegerMultipliers
            /\ ~call.raised => ExpandedBy(MultiplierOf)

\* C23 amended: a row is held max(multiplier, 0) times: a row with a negative
\* multiplier is absent as a row with multiplier 0 is.
C23_RowsTimesMultiplierOrNone ==
  Loaded => /\ call.raised <=> ~IntegerMultipliers
            /\ ~call.raised => ExpandedBy(LAMBDA i : Max(MultiplierOf(i), 0))

\* a file of a row with multiplier 2 and a row with multiplier 0 was loaded
C23_TwiceThenAbsent ==
  /\ Loaded /\ ~call.raised
  /\ Len(call.args.rows) = 2
  /\ call.args.rows[1].multiplier = "2" /\ call.args.rows[2].multiplier = "0"
  /\ call.result = <<call.args.rows[1], call.args.rows[1]>>

\* C24: the step in which the assembler raises NoResponseAvailableException
\* in repetition i of an item with a whole factor leaves generated_examples as
\* it is, with the i - 1 examples of the earlier repetitions at its end, and
\* moves the driver to the next item; no step ever changes or removes an
\* example that was appended.
C24_RaiseKeepsExamples ==
  /\ [][(rft'.status = "raised" /\ rft.status # "raised" /\ rft.factor >= 100) =>
          /\ generated_examples' = generated_examples
          /\ Len(generated_examples) - rft.first = rft.calls - 1
          /\ pc' = "loop"
          /\ pos' = NextPos]_vars
  /\ [][/\ Len(generated_examples') >= Len(generated_examples)
        /\ SubSeq(generated_examples', 1, Len(generated_examples)) = generated_examples]_vars

\* an item with factor 2 raised after examples of earlier items were appended
C24_RaisedUnderFactorTwo ==
  /\ rft.status = "raised"
  /\ rft.factor = 200
  /\ pc = "loop"
  /\ generated_examples # <<>>
  /\ Len(generated_examples) = rft.first

\* C25: the lines in the states of an example returned by an assembler name
\* pairwise distinct devices.
C25_DistinctDeviceLines ==
  example # <<>> =>
    \A i, j \in 1..Len(example[1].states) :
      i # j => example[1].states[i].device_name # example[1].states[j].device_name

\* C25 for generate_templated_example alone, on templates that name a device
\* type in two slots among others
C25_DistinctLinesOfTemplated ==
  Returned =>
    \A i, j \in 1..Len(call.result[1].states) :
      i # j => call.result[1].states[i].device_name # call.result[1].states[j].device_name

\* C26: the device type registered under a key k has the name k, and every
\* string get_all_services renders for it is "k.service(args)".
C26_RegisteredUnderItsName ==
  (call.op = "get_all_services in one process" /\ call.done) =>
    /\ SUPPORTED_DEVICES[call.args.device_type].name = call.args.device_type
    /\ \A i \in 1..Len(call.result) :
         call.result[i].text = ServiceString(call.args.device_type, call.result[i].service,
                                             call.result[i].args)

TranslateReturned ==
  /\ call.op = "translate_with_placeholders" /\ call.done
  /\ call.args.text.type = "str" /\ call.args.text.value # <<>>

TranslatedAt(k) == call.outcomes[k].kind = "translated"

\* C27: called with a string that is not empty, translate_with_placeholders
\* returns a string: the first translation that is not empty with its
\* placeholders restored, or the original text when no attempt gave one;
\* never None, never more than retry_count attempts, none after a success.
C27_AlwaysReturnsAString ==
  TranslateReturned =>
    /\ call.result.type = "str"
    /\ Len(call.outcomes) <= call.args.retry_count
    /\ \A k \in 1..(Len(call.outcomes) - 1) : ~TranslatedAt(k)
    /\ IF \E k \in 1..Len(call.outcomes) : TranslatedAt(k)
         THEN call.result = PyStr(RestorePlaceholders(call.outcomes[Len(call.outcomes)].text,
                                                      call.args.text))
         ELSE call.result = call.args.text

IsDigit(c) == \E d \in 1..Len(Digit) : Digit[d] = c

\* a '__PLACEHOLDER_i__' marker stands somewhere in chars
HasMarker(chars) ==
  \E p \in 1..Len(chars), q \in 1..Len(chars) :
    /\ OccursAt(chars, <<"_", "_", "P", "L", "A", "C", "E", "H", "O", "L", "D", "E", "R", "_">>, p)
    /\ q > p + 14
    /\ \A d \in (p + 14)..(q - 1) : IsDigit(chars[d])
    /\ OccursAt(chars, <<"_", "_">>, q)

LastOutcome == call.outcomes[Len(call.outcomes)]

\* C28: placeholder protection is a round trip: when the translator gives
\* back what it was sent, the result is the original text, for every text
\* without a marker of its own; and the tag of every marker that is in the
\* translation is in the result.
C28_ProtectionIsARoundTrip ==
  (TranslateReturned /\ call.outcomes # <<>> /\ LastOutcome.kind = "translated"
     /\ ~HasMarker(call.args.text.value)) =>
    /\ LastOutcome.text = ModifiedText(call.args.text) => call.result = call.args.text
    /\ LET placeholders == find_placeholders(call.args.text)
       IN \A i \in 1..Len(placeholders) :
            IsSubstring(Marker(i - 1), LastOutcome.text) =>
              IsSubstring(PlaceholderTag(placeholders[i]), call.result.value)

BatchOf(r) == (r - 1) \div batch_size

\* C29: for every translated column, the column '<column>_vi' has one entry
\* for every row of the file and entry r is what the translation of row r
\* returned, in whatever order the translations of a batch finish; and no
\* translation of a batch starts before every translation of the batches
\* before it has finished.
C29_NewColumnInRowOrder ==
  (call.op = "process_file" /\ call.at # "called") =>
    /\ \A c \in 1..Len(call.args.columns_to_translate) :
         LET column == call.args.columns_to_translate[c]
         IN /\ (Contains(call.args.df.columns, column) /\ c < call.c) =>
                 Contains(call.df.columns, column \o "_vi")
            /\ Contains(call.df.columns, column \o "_vi") =>
                 /\ Len(call.df.data[column \o "_vi"]) = call.df.len
                 /\ \A r \in 1..call.df.len :
                      call.df.data[column \o "_vi"][r] = call.returned[column][r]
    /\ \A r \in 1..Len(call.tasks), s \in 1..Len(call.tasks) :
         (BatchOf(r) < BatchOf(s) /\ call.tasks[s] # "none") => call.tasks[r] = "done"

\* a file of more than one batch was saved with a column whose translations
\* did not finish in row order and did not all end the same way
C29_SavedAfterOvertaking ==
  /\ call.op = "process_file" /\ call.at = "saved"
  /\ call.df.len > batch_size
  /\ call.overtaken
  /\ Contains(call.df.columns, "english_phrase_vi")
  /\ call.df.data["english_phrase_vi"][1] = PyNone
  /\ call.df.data["english_phrase_vi"][2].type = "str"
  /\ call.df.data["english_phrase_vi"][2] # call.df.data["english_phrase"][2]

====
